---------------------------- MODULE Spec2Model ----------------------------
(***************************************************************************)
(* The request-queue overlay tree (RQTree) of node-smb-server:             *)
(* lib/backends/rq/tree.js over two local trees (lib/backends/fs/tree.js), *)
(* a remote tree, a request queue and the background sync processor.       *)
(*                                                                         *)
(* A file name is a sequence of tokens (<<"x">>, <<"~", "t">>,             *)
(* <<"x", ".rqcf">>); a path is a sequence of file names.  Every           *)
(* asynchronous collaborator call of a handler is one step: the step       *)
(* performs the call's effect and runs the handler's callback up to the    *)
(* next asynchronous call.                                                 *)
(***************************************************************************)
EXTENDS Integers, Sequences, FiniteSets, TLC

\* ------------------------------------------------------------------ bounds
\* overlay operations in flight at once
MaxOps == 2
\* overlay operations called in one behaviour, one at a time
MaxCalls == 3
\* overlay operations called in one behaviour when they may interleave
MaxOverlapCalls == 2
\* injected collaborator failures in one behaviour
MaxFaults == 1

\* ------------------------------------------------------------------- names
DirNames == {<<"a">>, <<"b">>}
FileNames == {<<"x">>, <<"y">>, <<"~", "t">>, <<"e'">>, <<"e", "'">>}
Star == <<"*">>
Root == <<>>
NoPath == <<<<"-">>>>

DirPaths == {<<d>> : d \in DirNames}
FilePaths == {<<d, f>> : d \in DirNames, f \in FileNames}

\* utils.getParentPath
getParentPath(p) == IF Len(p) = 0 THEN Root ELSE SubSeq(p, 1, Len(p) - 1)

\* File.getName: the last component of a path
getName(p) == p[Len(p)]

\* share.isTempFileName: the name's last component begins with "~"
isTempFileName(p) == Len(p) > 0 /\ Head(getName(p)) = "~"

\* RQTree.getCreateFileName: name + '.rqcf'
getCreateFileName(p) == [p EXCEPT ![Len(p)] = Append(@, ".rqcf")]

\* ------------------------------------------------- the local trees (FSTree)
IsPrefix(d, p) == Len(d) <= Len(p) /\ SubSeq(p, 1, Len(d)) = d
Under(T, d) == {p \in T : IsPrefix(d, p)}
Children(T, d) == {p \in T : Len(p) = Len(d) + 1 /\ IsPrefix(d, p)}
Ancestors(p) == {SubSeq(p, 1, k) : k \in 1..(Len(p) - 1)}
Reparent(p, old, new) == new \o SubSeq(p, Len(old) + 1, Len(p))
\* in this universe the directories are the paths of depth one
isDirectory(p) == Len(p) = 1

\* fs.stat without error
FsExists(T, p) == p = Root \/ p \in T

\* mkdirp of the parent, then fs.open(path, 'wx')
FsCreateFileOk(T, p) == p \notin T
FsCreateFile(T, p) == T \cup Ancestors(p) \cup {p}

\* mkdirp
FsCreateDirectory(T, p) == T \cup Ancestors(p) \cup {p}

\* fs.unlink
FsDeleteOk(T, p) == p \in T /\ ~isDirectory(p)
FsDelete(T, p) == T \ {p}

\* fs.rmdir
FsDeleteDirectoryOk(T, p) == p \in T /\ isDirectory(p) /\ Children(T, p) = {}
FsDeleteDirectory(T, p) == T \ {p}

\* fs.rename: the source exists, the target's parent exists, and a target
\* directory is empty; an existing target is replaced
FsRenameOk(T, old, new) ==
    /\ old \in T
    /\ FsExists(T, getParentPath(new))
    /\ isDirectory(old) = isDirectory(new)
    /\ (new \in T /\ isDirectory(new)) => Children(T, new) = {}
FsRename(T, old, new) ==
    ((T \ Under(T, old)) \ {new}) \cup {Reparent(p, old, new) : p \in Under(T, old)}

\* unorm.nfkd on a name: a precomposed token decomposes into two
NfkdToken(t) == IF t = "e'" THEN <<"e", "'">> ELSE <<t>>
RECURSIVE Nfkd(_)
Nfkd(n) == IF n = <<>> THEN <<>> ELSE NfkdToken(Head(n)) \o Nfkd(Tail(n))
unicodeEquals(str1, str2) == Nfkd(str1) = Nfkd(str2)

\* fs.readdir of the parent and the pattern filter of FSTree.list
FsListOk(T, pattern) == FsExists(T, getParentPath(pattern))
FsListNames(T, pattern) ==
    {p \in Children(T, getParentPath(pattern)) :
        getName(pattern) = Star \/ unicodeEquals(getName(p), getName(pattern))}

\* the orders in which a directory listing can come back
Perms(S) ==
    {sq \in [1..Cardinality(S) -> S] : \A i, j \in 1..Cardinality(S) : sq[i] = sq[j] => i = j}


\* ------------------------------------------------------------------- state
VARIABLES
    L,             \* local tree: the paths cached locally
    W,             \* work tree: sidecar entries (creation markers, directories)
    R,             \* remote tree: the paths of the remote repository
    Q,             \* request queue: the pending entries, oldest first
    createdFiles,  \* RQTree.createdFiles
    openFiles,     \* paths a client holds an overlay file open on
    remoteHandles, \* open overlay files backed by the remote only, bytes not fetched
    conflicts,     \* paths a Conflict event was emitted for
    ops,           \* the overlay operations in flight, one per slot
    calls,         \* overlay operations called so far
    faults,        \* collaborator failures injected so far
    lastEnq,       \* monitor: the entry appended to Q by the last step
    delSince,      \* monitor: names with a DELETE enqueued and no createFile since
    dupDelete,     \* monitor: names that received a second DELETE without a createFile
    delRet,        \* monitor: names whose delete returned, DELETE pending since
    delRetL,       \* monitor: names whose delete returned; since then the DELETE is
                   \* the latest entry of the name, the name is not in L, its directory is
    hid,           \* monitor: per list call, delRet at its start, still pending
    hidL,          \* monitor: per list call, delRetL at its start, still valid
    renamedDirs    \* monitor: directories whose rename returned, not re-created

model == <<L, W, R, Q, createdFiles, openFiles, remoteHandles, conflicts, ops, calls,
           faults>>
monitors == <<lastEnq, delSince, dupDelete, delRet, delRetL, hid, hidL, renamedDirs>>
vars == <<model, monitors>>

Slots == 1..MaxOps
AllNames == DirNames \cup FileNames

\* an overlay file (RQFile): the name it was created with and its backing handles
NoFile == [name |-> NoPath, local |-> FALSE, remote |-> FALSE]
\* RQFile.createInstance / createInstanceFromRemote
RemoteFile(p) == [name |-> p, local |-> FALSE, remote |-> TRUE]
\* RQFile.createInstanceFromLocal
LocalFile(p) == [name |-> p, local |-> TRUE, remote |-> FALSE]
\* RQFile.createInstanceFromLocalAndRemote
LocalRemoteFile(p) == [name |-> p, local |-> TRUE, remote |-> TRUE]

NoRequests == [n \in AllNames |-> "none"]
NoLookup == [n \in AllNames |-> 0]

\* the local variables of one call of a handler
IdleOp ==
    [kind |-> "idle", pc |-> "idle", name |-> NoPath, newName |-> NoPath,
     exists |-> FALSE, remoteExists |-> FALSE, createdExists |-> FALSE,
     remoteFiles |-> <<>>, localFiles |-> <<>>, requests |-> NoRequests,
     lookup |-> NoLookup, remoteLookup |-> NoLookup, rqFiles |-> <<>>, index |-> 0,
     err |-> "none", result |-> FALSE, file |-> NoFile,
     canDel |-> FALSE, hadOld |-> FALSE, askedRemote |-> FALSE, logged |-> {}]

\* cb(err) and cb(null, ...): the handler's callback has been invoked
Fail(op, e) == [op EXCEPT !.pc = "done", !.err = e]
Succeed(op) == [op EXCEPT !.pc = "done"]
At(s, kind, pc) == ops[s].kind = kind /\ ops[s].pc = pc

\* an injected failure of the collaborator call of this step
FaultSet == IF faults < MaxFaults THEN {FALSE, TRUE} ELSE {FALSE}
Inject(f) == faults' = faults + (IF f THEN 1 ELSE 0)

\* ------------------------------------------------------- the request queue
Entry(method, path, destPath) ==
    [method |-> method, path |-> path, destPath |-> destPath,
     remotePrefix |-> "remote", localPrefix |-> "local"]
NoEntry == Entry("none", NoPath, NoPath)

\* queueData without the test for temporary names
queueDataAll(q, name, method, newName, qok) ==
    IF qok THEN Append(q, Entry(method, name, newName)) ELSE q

\* queueData that skips a request as soon as one of its names is temporary
queueDataEitherTemp(q, name, method, newName, qok) ==
    LET isTempFile == isTempFileName(name) \/ (newName # NoPath /\ isTempFileName(newName))
    IN  IF ~isTempFile /\ qok THEN Append(q, Entry(method, name, newName)) ELSE q

\* RQTree.queueData: the queue after the call; qok is whether rq.queueRequest
\* stored the entry (its error is only logged)
queueData(q, name, method, newName, qok) ==
    LET isTempFile == IF newName # NoPath
                      THEN isTempFileName(name) /\ isTempFileName(newName)
                      ELSE isTempFileName(name)
    IN  IF ~isTempFile /\ qok THEN Append(q, Entry(method, name, newName)) ELSE q

\* RequestQueue.getRequests: basename -> method of the latest pending entry
\* whose parent is parentPath
LastFor(q, p) ==
    LET I == {i \in 1..Len(q) : q[i].path = p}
    IN  IF I = {} THEN "none" ELSE q[CHOOSE i \in I : \A j \in I : j <= i].method
getRequests(q, parentPath) ==
    [n \in AllNames |-> LastFor(q, Append(parentPath, n))]

\* RequestQueue.removePath: drop every entry keyed under prefix
KeyedUnder(e, prefix) == IsPrefix(prefix, getParentPath(e.path))
removePath(q, prefix) == SelectSeq(q, LAMBDA e : ~KeyedUnder(e, prefix))

\* RequestQueue.updatePath: re-parent every entry keyed under oldPrefix
Moved(p, old, new) == IF p # NoPath /\ IsPrefix(old, p) THEN Reparent(p, old, new) ELSE p
updatePath(q, old, new) ==
    [i \in 1..Len(q) |->
        IF KeyedUnder(q[i], old)
        THEN [q[i] EXCEPT !.path = Moved(@, old, new), !.destPath = Moved(@, old, new)]
        ELSE q[i]]

HasEntry(q, method, p) == \E i \in 1..Len(q) : q[i].method = method /\ q[i].path = p
Refers(q, p) == \E i \in 1..Len(q) : q[i].path = p \/ q[i].destPath = p

\* RQFile.deleteWorkFiles: remove the sidecars of a path from the work tree
deleteWorkFiles(T, p) == T \ {getCreateFileName(p)}

\* RQFile.canDelete: no client holds the file open, no queued request refers
\* to it, and it has no creation marker
canDelete(p) ==
    /\ p \notin openFiles
    /\ ~Refers(Q, p)
    /\ getCreateFileName(p) \notin W

\* ---------------------------------------------------------------- monitors
NoEnq == [e |-> NoEntry, inL |-> FALSE, wasInL |-> FALSE, destInL |-> FALSE]
Appended == Len(Q') = Len(Q) + 1
Newest == Q'[Len(Q')]
Stepped(s, kind, from, to) == At(s, kind, from) /\ ops'[s].pc = to

\* the monitors' step, from the model's step; no handler reads a monitor
Track ==
    LET created  == {ops[s].name : s \in {t \in Slots :
                        Stepped(t, "createFile", "local.createFile", "work.createFile")}}
        delEnq   == IF Appended /\ Newest.method = "DELETE" THEN {Newest.path} ELSE {}
        returned == {ops[s].name : s \in {t \in Slots :
                        Stepped(t, "delete", "deleteWorkFiles", "done")}}
        dirRet   == {ops[s].name : s \in {t \in Slots :
                        Stepped(t, "rename", "rq.updatePath", "done") /\ ops'[t].err = "none"}}
        newRet   == {n \in delRet \cup returned : HasEntry(Q', "DELETE", n)}
        newRetL  == {n \in delRetL \cup returned :
                        /\ LastFor(Q', n) = "DELETE"
                        /\ n \notin L'
                        /\ FsExists(L', getParentPath(n))}
    IN  /\ lastEnq' = IF Appended
                      THEN [e |-> Newest, inL |-> Newest.path \in L',
                            wasInL |-> IF Newest.method = "MOVE"
                                       THEN \E t \in Slots : /\ ops[t].kind = "rename"
                                                             /\ ops'[t] # ops[t]
                                                             /\ ops[t].hadOld
                                       ELSE Newest.path \in L,
                            destInL |-> Newest.destPath \in L']
                      ELSE NoEnq
        /\ dupDelete' = dupDelete \cup (delEnq \cap delSince)
        /\ delSince' = (delSince \ created) \cup delEnq
        /\ delRet' = newRet
        /\ delRetL' = newRetL
        /\ hid' = [s \in Slots |->
                     IF ops'[s].kind # "list" THEN {}
                     ELSE IF ops[s].kind # "list"
                          THEN {n \in delRet : getParentPath(n) = getParentPath(ops'[s].name)}
                          ELSE hid[s] \cap newRet]
        /\ hidL' = [s \in Slots |->
                     IF ops'[s].kind # "list" THEN {}
                     ELSE IF ops[s].kind # "list"
                          THEN {n \in delRetL : getParentPath(n) = getParentPath(ops'[s].name)}
                          ELSE hidL[s] \cap newRetL]
        /\ renamedDirs' = {d \in renamedDirs \cup dirRet : d \notin L'}

\* ------------------------------------------------------------ calling
FreeSlot(s) == ops[s].kind = "idle" /\ \A t \in Slots : t < s => ops[t].kind # "idle"

\* a client calls handler kind with (name, newName); cap is how many calls
\* may be in flight
Call(s, cap, kind, first, name, newName) ==
    /\ FreeSlot(s)
    /\ calls < (IF cap = 1 THEN MaxCalls ELSE MaxOverlapCalls)
    /\ Cardinality({t \in Slots : ops[t].kind # "idle"}) < cap
    /\ ops' = [ops EXCEPT ![s] = [IdleOp EXCEPT !.kind = kind, !.pc = first,
                                                !.name = name, !.newName = newName]]
    /\ calls' = calls + 1
    /\ UNCHANGED <<L, W, R, Q, createdFiles, openFiles, remoteHandles, conflicts, faults>>
    /\ Track

\* the callback has run: the call is over.  A list whose getRequests callback
\* threw never invokes its callback; its slot is released as well
Return(s) ==
    /\ ops[s].pc \in {"done", "threw"}
    /\ ops' = [ops EXCEPT ![s] = IdleOp]
    /\ UNCHANGED <<L, W, R, Q, createdFiles, openFiles, remoteHandles, conflicts, calls, faults>>
    /\ Track

\* ------------------------------------------------------- RQTree.exists
\* local.exists whose answer is not looked at: the remote is always asked
ExistsAlwaysRemote(s) ==
    /\ At(s, "exists", "local.exists")
    /\ ops' = [ops EXCEPT ![s] = [@ EXCEPT !.pc = "remote.exists"]]
    /\ UNCHANGED <<L, W, R, Q, createdFiles, openFiles, remoteHandles, conflicts, calls,
                   faults>>
    /\ Track

ExistsLocalExists(s) ==
    /\ At(s, "exists", "local.exists")
    /\ \E f \in FaultSet :
        /\ Inject(f)
        /\ ops' = [ops EXCEPT ![s] =
              IF f THEN Fail(@, "Io")
              ELSE IF FsExists(L, ops[s].name)
                   THEN [Succeed(@) EXCEPT !.exists = TRUE, !.result = TRUE]
                   ELSE [@ EXCEPT !.pc = "remote.exists"]]
    /\ UNCHANGED <<L, W, R, Q, createdFiles, openFiles, remoteHandles, conflicts, calls>>
    /\ Track

ExistsRemoteExists(s) ==
    /\ At(s, "exists", "remote.exists")
    /\ \E f \in FaultSet :
        /\ Inject(f)
        /\ ops' = [ops EXCEPT ![s] =
              IF f THEN [Fail(@, "Remote") EXCEPT !.askedRemote = TRUE]
              ELSE [Succeed(@) EXCEPT !.result = FsExists(R, ops[s].name), !.askedRemote = TRUE]]
    /\ UNCHANGED <<L, W, R, Q, createdFiles, openFiles, remoteHandles, conflicts, calls>>
    /\ Track

\* --------------------------------------------------------- RQTree.open
\* remote.exists whose error is taken for "not on the remote": open falls back
\* to the local tree
OpenRemoteExistsFallback(s) ==
    /\ At(s, "open", "remote.exists")
    /\ \E f \in FaultSet :
        /\ Inject(f)
        /\ ops' = [ops EXCEPT ![s] =
              [@ EXCEPT !.pc = "local.exists", !.askedRemote = TRUE,
                        !.remoteExists = ~f /\ FsExists(R, ops[s].name)]]
    /\ UNCHANGED <<L, W, R, Q, createdFiles, openFiles, remoteHandles, conflicts, calls>>
    /\ Track

\* remote.exists
OpenRemoteExists(s) ==
    /\ At(s, "open", "remote.exists")
    /\ \E f \in FaultSet :
        /\ Inject(f)
        /\ ops' = [ops EXCEPT ![s] =
              IF f THEN [Fail(@, "Remote") EXCEPT !.askedRemote = TRUE]
              ELSE [@ EXCEPT !.pc = "local.exists", !.askedRemote = TRUE,
                             !.remoteExists = FsExists(R, ops[s].name)]]
    /\ UNCHANGED <<L, W, R, Q, createdFiles, openFiles, remoteHandles, conflicts, calls>>
    /\ Track

\* local.exists followed by a test of remoteExists alone
OpenLocalExistsRemoteWins(s) ==
    /\ At(s, "open", "local.exists")
    /\ LET localExists == FsExists(L, ops[s].name)
           remoteOnly == ops[s].remoteExists
       IN  /\ ops' = [ops EXCEPT ![s] =
                 IF remoteOnly
                 THEN [Succeed(@) EXCEPT !.exists = localExists,
                                         !.file = RemoteFile(ops[s].name)]
                 ELSE [@ EXCEPT !.exists = localExists, !.pc = "local.open"]]
           /\ openFiles' = IF remoteOnly THEN openFiles \cup {ops[s].name} ELSE openFiles
           /\ remoteHandles' = IF remoteOnly THEN remoteHandles \cup {ops[s].name}
                               ELSE remoteHandles
    /\ UNCHANGED <<L, W, R, Q, createdFiles, conflicts, calls, faults>>
    /\ Track

\* local.exists; with (remote, no local) RQFile.createInstance follows at once
OpenLocalExists(s) ==
    /\ At(s, "open", "local.exists")
    /\ \E f \in FaultSet :
        /\ Inject(f)
        /\ LET localExists == FsExists(L, ops[s].name)
               remoteOnly == ops[s].remoteExists /\ ~localExists
           IN  /\ ops' = [ops EXCEPT ![s] =
                     IF f THEN Fail(@, "Io")
                     ELSE IF remoteOnly
                          THEN [Succeed(@) EXCEPT !.exists = localExists,
                                                  !.file = RemoteFile(ops[s].name)]
                          ELSE [@ EXCEPT !.exists = localExists, !.pc = "local.open"]]
               /\ openFiles' = IF ~f /\ remoteOnly THEN openFiles \cup {ops[s].name}
                               ELSE openFiles
               /\ remoteHandles' = IF ~f /\ remoteOnly
                                   THEN remoteHandles \cup {ops[s].name}
                                   ELSE remoteHandles
    /\ UNCHANGED <<L, W, R, Q, createdFiles, conflicts, calls>>
    /\ Track

\* local.open (FSTree.open -> FSFile.createInstance: a stat of the path); with
\* no remote file RQFile.createInstanceFromLocal follows at once
OpenLocalOpen(s) ==
    /\ At(s, "open", "local.open")
    /\ \E f \in FaultSet :
        /\ Inject(f)
        /\ LET found == FsExists(L, ops[s].name)
               localOnly == ~f /\ found /\ ~ops[s].remoteExists
           IN  /\ ops' = [ops EXCEPT ![s] =
                     IF f THEN Fail(@, "Io")
                     ELSE IF ~found THEN Fail(@, "NotFound")
                     ELSE IF ~@.remoteExists
                          THEN [Succeed(@) EXCEPT !.file = LocalFile(ops[s].name)]
                          ELSE [@ EXCEPT !.pc = "remote.open"]]
               /\ openFiles' = IF localOnly THEN openFiles \cup {ops[s].name} ELSE openFiles
    /\ UNCHANGED <<L, W, R, Q, createdFiles, remoteHandles, conflicts, calls>>
    /\ Track

\* DAMTree.open, then RQFile.createInstanceFromLocalAndRemote
OpenRemoteOpen(s) ==
    /\ At(s, "open", "remote.open")
    /\ \E f \in FaultSet :
        /\ Inject(f)
        /\ LET found == FsExists(R, ops[s].name)
           IN  /\ ops' = [ops EXCEPT ![s] =
                     IF f THEN Fail(@, "Remote")
                     ELSE IF ~found THEN Fail(@, "NotFound")
                     ELSE [Succeed(@) EXCEPT !.file = LocalRemoteFile(ops[s].name)]]
               /\ openFiles' = IF ~f /\ found THEN openFiles \cup {ops[s].name} ELSE openFiles
    /\ UNCHANGED <<L, W, R, Q, createdFiles, remoteHandles, conflicts, calls>>
    /\ Track

\* queueData's callback: logger.error('unable to queue request', options, err)
QueueError(op) == [msg |-> "unable to queue", path |-> op.name]
QueueLog(op, g) == IF g THEN [op EXCEPT !.logged = @ \cup {QueueError(op)}] ELSE op

\* --------------------------------------------------- RQTree.createFile
CreateFileLocal(s) ==
    /\ At(s, "createFile", "local.createFile")
    /\ \E f \in FaultSet :
        /\ Inject(f)
        /\ LET ok == ~f /\ FsCreateFileOk(L, ops[s].name)
           IN  /\ ops' = [ops EXCEPT ![s] =
                     IF f THEN Fail(@, "Io")
                     ELSE IF ~ok THEN Fail(@, "AlreadyExists")
                     ELSE [@ EXCEPT !.pc = "work.createFile"]]
               /\ L' = IF ok THEN FsCreateFile(L, ops[s].name) ELSE L
    /\ UNCHANGED <<W, R, Q, createdFiles, openFiles, remoteHandles, conflicts, calls>>
    /\ Track

\* createFile that queues the PUT itself, once the marker is written
CreateFileWorkQueued(s) ==
    /\ At(s, "createFile", "work.createFile")
    /\ \E f \in FaultSet :
        /\ Inject(f)
        /\ LET marker == getCreateFileName(ops[s].name)
               ok == ~f /\ FsCreateFileOk(W, marker)
           IN  /\ ops' = [ops EXCEPT ![s] =
                     IF f THEN Fail(@, "Io")
                     ELSE IF ~ok THEN Fail(@, "AlreadyExists")
                     ELSE [Succeed(@) EXCEPT !.file = LocalFile(ops[s].name)]]
               /\ W' = IF ok THEN FsCreateFile(W, marker) ELSE W
               /\ createdFiles' = IF ok THEN createdFiles \cup {ops[s].name}
                                  ELSE createdFiles
               /\ openFiles' = IF ok THEN openFiles \cup {ops[s].name} ELSE openFiles
               /\ Q' = IF ok THEN queueData(Q, ops[s].name, "PUT", NoPath, TRUE) ELSE Q
    /\ UNCHANGED <<L, R, remoteHandles, conflicts, calls>>
    /\ Track

\* work.createFile of the marker, createdFiles[name] = true, and the local-only file
CreateFileWork(s) ==
    /\ At(s, "createFile", "work.createFile")
    /\ \E f \in FaultSet :
        /\ Inject(f)
        /\ LET marker == getCreateFileName(ops[s].name)
               ok == ~f /\ FsCreateFileOk(W, marker)
           IN  /\ ops' = [ops EXCEPT ![s] =
                     IF f THEN Fail(@, "Io")
                     ELSE IF ~ok THEN Fail(@, "AlreadyExists")
                     ELSE [Succeed(@) EXCEPT !.file = LocalFile(ops[s].name)]]
               /\ W' = IF ok THEN FsCreateFile(W, marker) ELSE W
               /\ createdFiles' = IF ok THEN createdFiles \cup {ops[s].name}
                                  ELSE createdFiles
               /\ openFiles' = IF ok THEN openFiles \cup {ops[s].name} ELSE openFiles
    /\ UNCHANGED <<L, R, Q, remoteHandles, conflicts, calls>>
    /\ Track

\* ---------------------------------------------- RQTree.createDirectory
CreateDirectoryLocal(s) ==
    /\ At(s, "createDirectory", "local.createDirectory")
    /\ \E f \in FaultSet :
        /\ Inject(f)
        /\ ops' = [ops EXCEPT ![s] =
              IF f THEN Fail(@, "Io") ELSE [@ EXCEPT !.pc = "remote.createDirectory"]]
        /\ L' = IF f THEN L ELSE FsCreateDirectory(L, ops[s].name)
    /\ UNCHANGED <<W, R, Q, createdFiles, openFiles, remoteHandles, conflicts, calls>>
    /\ Track

\* createDirectory that queues the creation instead of calling the remote
CreateDirectoryQueued(s) ==
    /\ At(s, "createDirectory", "remote.createDirectory")
    /\ ops' = [ops EXCEPT ![s] = Succeed(@)]
    /\ Q' = Append(Q, Entry("MKCOL", ops[s].name, NoPath))
    /\ UNCHANGED <<L, W, R, createdFiles, openFiles, remoteHandles, conflicts, calls, faults>>
    /\ Track

\* DAMTree.createDirectory, at once after the local one
CreateDirectoryRemote(s) ==
    /\ At(s, "createDirectory", "remote.createDirectory")
    /\ \E f \in FaultSet :
        /\ Inject(f)
        /\ ops' = [ops EXCEPT ![s] =
              IF f THEN [Fail(@, "Remote") EXCEPT !.askedRemote = TRUE]
              ELSE [Succeed(@) EXCEPT !.askedRemote = TRUE]]
        /\ R' = IF f THEN R ELSE FsCreateDirectory(R, ops[s].name)
    /\ UNCHANGED <<L, W, Q, createdFiles, openFiles, remoteHandles, conflicts, calls>>
    /\ Track

\* ------------------------------------------------------- RQTree.delete
DeleteLocalExists(s) ==
    /\ At(s, "delete", "local.exists")
    /\ \E f \in FaultSet :
        /\ Inject(f)
        /\ ops' = [ops EXCEPT ![s] =
              IF f THEN Fail(@, "Io")
              ELSE IF FsExists(L, ops[s].name)
                   THEN [@ EXCEPT !.exists = TRUE, !.pc = "local.delete"]
                   ELSE [@ EXCEPT !.pc = "remote.delete"]]
    /\ UNCHANGED <<L, W, R, Q, createdFiles, openFiles, remoteHandles, conflicts, calls>>
    /\ Track

\* local.delete whose callback queues the DELETE without looking at err
DeleteLocalDeleteUnchecked(s) ==
    /\ At(s, "delete", "local.delete")
    /\ LET ok == FsDeleteOk(L, ops[s].name)
       IN  /\ ops' = [ops EXCEPT ![s] = [@ EXCEPT !.pc = "deleteWorkFiles"]]
           /\ L' = IF ok THEN FsDelete(L, ops[s].name) ELSE L
           /\ Q' = queueData(Q, ops[s].name, "DELETE", NoPath, TRUE)
    /\ UNCHANGED <<W, R, createdFiles, openFiles, remoteHandles, conflicts, calls, faults>>
    /\ Track

\* delete whose callback receives the error of rq.queueRequest
DeleteLocalDeleteQueueFatal(s) ==
    /\ At(s, "delete", "local.delete")
    /\ \E f, g \in FaultSet :
        /\ ~(f /\ g)
        /\ g => ~isTempFileName(ops[s].name) /\ FsDeleteOk(L, ops[s].name)
        /\ Inject(f \/ g)
        /\ LET ok == ~f /\ FsDeleteOk(L, ops[s].name)
           IN  /\ ops' = [ops EXCEPT ![s] =
                     IF f THEN Fail(@, "Io")
                     ELSE IF ~ok THEN Fail(@, "NotFound")
                     ELSE IF g THEN QueueLog(Fail(@, "Queue"), g)
                     ELSE [@ EXCEPT !.pc = "deleteWorkFiles"]]
               /\ L' = IF ok THEN FsDelete(L, ops[s].name) ELSE L
               /\ Q' = IF ok THEN queueData(Q, ops[s].name, "DELETE", NoPath, ~g) ELSE Q
    /\ UNCHANGED <<W, R, createdFiles, openFiles, remoteHandles, conflicts, calls>>
    /\ Track

\* local.delete; its callback queues the DELETE and calls deleteWorkFiles.
\* f fails the unlink, g fails rq.queueRequest
DeleteLocalDelete(s) ==
    /\ At(s, "delete", "local.delete")
    /\ \E f, g \in FaultSet :
        /\ ~(f /\ g)
        /\ g => ~isTempFileName(ops[s].name) /\ FsDeleteOk(L, ops[s].name)
        /\ Inject(f \/ g)
        /\ LET ok == ~f /\ FsDeleteOk(L, ops[s].name)
           IN  /\ ops' = [ops EXCEPT ![s] =
                     IF f THEN Fail(@, "Io")
                     ELSE IF ~ok THEN Fail(@, "NotFound")
                     ELSE QueueLog([@ EXCEPT !.pc = "deleteWorkFiles"], g)]
               /\ L' = IF ok THEN FsDelete(L, ops[s].name) ELSE L
               /\ Q' = IF ok THEN queueData(Q, ops[s].name, "DELETE", NoPath, ~g) ELSE Q
    /\ UNCHANGED <<W, R, createdFiles, openFiles, remoteHandles, conflicts, calls>>
    /\ Track

\* delete that leaves the sidecars of the file in the work tree
DeleteKeepWorkFiles(s) ==
    /\ At(s, "delete", "deleteWorkFiles")
    /\ ops' = [ops EXCEPT ![s] = Succeed(@)]
    /\ UNCHANGED <<L, W, R, Q, createdFiles, openFiles, remoteHandles, conflicts, calls,
                   faults>>
    /\ Track

\* RQFile.deleteWorkFiles; its error is logged and the delete succeeds
DeleteDeleteWorkFiles(s) ==
    /\ At(s, "delete", "deleteWorkFiles")
    /\ \E f \in FaultSet :
        /\ Inject(f)
        /\ ops' = [ops EXCEPT ![s] = Succeed(@)]
        /\ W' = IF f THEN W ELSE deleteWorkFiles(W, ops[s].name)
    /\ UNCHANGED <<L, R, Q, createdFiles, openFiles, remoteHandles, conflicts, calls>>
    /\ Track

\* not cached locally: DAMTree.delete
DeleteRemoteDelete(s) ==
    /\ At(s, "delete", "remote.delete")
    /\ \E f \in FaultSet :
        /\ Inject(f)
        /\ LET ok == ~f /\ FsDeleteOk(R, ops[s].name)
           IN  /\ ops' = [ops EXCEPT ![s] =
                     IF f THEN [Fail(@, "Remote") EXCEPT !.askedRemote = TRUE]
                     ELSE IF ~ok THEN [Fail(@, "NotFound") EXCEPT !.askedRemote = TRUE]
                     ELSE [Succeed(@) EXCEPT !.askedRemote = TRUE]]
               /\ R' = IF ok THEN FsDelete(R, ops[s].name) ELSE R
    /\ UNCHANGED <<L, W, Q, createdFiles, openFiles, remoteHandles, conflicts, calls>>
    /\ Track

\* --------------------------------------------------------- RQTree.list
\* the remote pass without the skip of entries that a DELETE is pending for
RECURSIVE RemotePassAll(_, _, _)
RemotePassAll(op, requests, i) ==
    IF i > Len(op.remoteFiles) THEN op
    ELSE LET rf == op.remoteFiles[i]
         IN  RemotePassAll([op EXCEPT !.rqFiles = Append(@, RemoteFile(rf)),
                                      !.lookup[getName(rf)] = Len(op.rqFiles) + 1,
                                      !.remoteLookup[getName(rf)] = i],
                           requests, i + 1)

\* the remote pass: the for loop over remoteFiles
RECURSIVE RemotePass(_, _, _)
RemotePass(op, requests, i) ==
    IF i > Len(op.remoteFiles) THEN op
    ELSE LET rf == op.remoteFiles[i]
         IN  IF requests[getName(rf)] # "DELETE"
             THEN RemotePass([op EXCEPT !.rqFiles = Append(@, RemoteFile(rf)),
                                        !.lookup[getName(rf)] = Len(op.rqFiles) + 1,
                                        !.remoteLookup[getName(rf)] = i],
                             requests, i + 1)
             ELSE RemotePass(op, requests, i + 1)

\* processLocal that never consults lookup: every persistent local entry is
\* handled as local-only
RECURSIVE processLocalNoLookup(_)
processLocalNoLookup(op) ==
    IF op.index > Len(op.localFiles) THEN Succeed(op)
    ELSE LET lf == op.localFiles[op.index]
         IN  IF isTempFileName(lf)
             THEN processLocalNoLookup([op EXCEPT
                      !.rqFiles = Append(@, LocalFile(<<getName(lf)>>)), !.index = @ + 1])
             ELSE [op EXCEPT !.pc = "work.exists"]

\* processLocal that pushes the merged entry instead of storing it at
\* remoteIndex
RECURSIVE processLocalPush(_)
processLocalPush(op) ==
    IF op.index > Len(op.localFiles) THEN Succeed(op)
    ELSE LET lf == op.localFiles[op.index]
             remoteIndex == op.lookup[getName(lf)]
         IN  IF isTempFileName(lf)
             THEN processLocalPush([op EXCEPT
                      !.rqFiles = Append(@, LocalFile(<<getName(lf)>>)), !.index = @ + 1])
             ELSE IF remoteIndex # 0
             THEN processLocalPush([op EXCEPT
                      !.rqFiles = Append(@, LocalRemoteFile(lf)), !.index = @ + 1])
             ELSE [op EXCEPT !.pc = "work.exists"]

\* processLocal(index), up to its next asynchronous call: temporary and merged
\* entries are added at once, a local-only entry asks the work tree
RECURSIVE processLocal(_)
processLocal(op) ==
    IF op.index > Len(op.localFiles) THEN Succeed(op)
    ELSE LET lf == op.localFiles[op.index]
             remoteIndex == op.lookup[getName(lf)]
         IN  IF isTempFileName(lf)
             THEN processLocal([op EXCEPT !.rqFiles = Append(@, LocalFile(<<getName(lf)>>)),
                                          !.index = @ + 1])
             ELSE IF remoteIndex # 0
             THEN processLocal([op EXCEPT !.rqFiles[remoteIndex] = LocalRemoteFile(lf),
                                          !.index = @ + 1])
             ELSE [op EXCEPT !.pc = "work.exists"]

Current(op) == op.localFiles[op.index]
\* rqFiles.push(rqFile); processLocal(index + 1)
PushLocal(op) ==
    processLocal([op EXCEPT !.rqFiles = Append(@, LocalFile(Current(op))), !.index = @ + 1])

ListRemoteList(s) ==
    /\ At(s, "list", "remote.list")
    /\ \E f \in FaultSet :
        /\ Inject(f)
        /\ IF f THEN ops' = [ops EXCEPT ![s] = [Fail(@, "Remote") EXCEPT !.askedRemote = TRUE]]
           ELSE IF ~FsListOk(R, ops[s].name)
           THEN ops' = [ops EXCEPT ![s] = [Fail(@, "NotFound") EXCEPT !.askedRemote = TRUE]]
           ELSE \E sq \in Perms(FsListNames(R, ops[s].name)) :
                    ops' = [ops EXCEPT ![s] = [@ EXCEPT !.pc = "local.exists",
                                                        !.askedRemote = TRUE,
                                                        !.remoteFiles = sq]]
    /\ UNCHANGED <<L, W, R, Q, createdFiles, openFiles, remoteHandles, conflicts, calls>>
    /\ Track

\* local.exists(parentPath) whose answer is not looked at: the merge always runs
ListLocalExistsMerge(s) ==
    /\ At(s, "list", "local.exists")
    /\ ops' = [ops EXCEPT ![s] = [@ EXCEPT !.exists = TRUE, !.pc = "local.list"]]
    /\ UNCHANGED <<L, W, R, Q, createdFiles, openFiles, remoteHandles, conflicts, calls,
                   faults>>
    /\ Track

\* local.exists(parentPath); without the parent the remote files are the result
ListLocalExists(s) ==
    /\ At(s, "list", "local.exists")
    /\ \E f \in FaultSet :
        /\ Inject(f)
        /\ ops' = [ops EXCEPT ![s] =
              IF f THEN Fail(@, "Io")
              ELSE IF FsExists(L, getParentPath(ops[s].name))
                   THEN [@ EXCEPT !.exists = TRUE, !.pc = "local.list"]
                   ELSE [Succeed(@) EXCEPT
                            !.rqFiles = [i \in 1..Len(ops[s].remoteFiles) |->
                                            RemoteFile(ops[s].remoteFiles[i])]]]
    /\ UNCHANGED <<L, W, R, Q, createdFiles, openFiles, remoteHandles, conflicts, calls>>
    /\ Track

ListLocalList(s) ==
    /\ At(s, "list", "local.list")
    /\ \E f \in FaultSet :
        /\ Inject(f)
        /\ IF f THEN ops' = [ops EXCEPT ![s] = Fail(@, "Io")]
           ELSE IF ~FsListOk(L, ops[s].name)
           THEN ops' = [ops EXCEPT ![s] = Fail(@, "NotFound")]
           ELSE \E sq \in Perms(FsListNames(L, ops[s].name)) :
                    ops' = [ops EXCEPT ![s] = [@ EXCEPT !.pc = "rq.getRequests",
                                                        !.localFiles = sq]]
    /\ UNCHANGED <<L, W, R, Q, createdFiles, openFiles, remoteHandles, conflicts, calls>>
    /\ Track

\* rq.getRequests; its callback ignores err: with an error requests is
\* undefined and the remote pass throws on its first entry
ListGetRequests(s) ==
    /\ At(s, "list", "rq.getRequests")
    /\ \E f \in FaultSet :
        /\ Inject(f)
        /\ ops' = [ops EXCEPT ![s] =
              IF f /\ Len(@.remoteFiles) > 0 THEN [@ EXCEPT !.pc = "threw"]
              ELSE LET requests == IF f THEN NoRequests
                                   ELSE getRequests(Q, getParentPath(ops[s].name))
                   IN  processLocal(RemotePass([@ EXCEPT !.requests = requests,
                                                         !.index = 1],
                                               requests, 1))]
    /\ UNCHANGED <<L, W, R, Q, createdFiles, openFiles, remoteHandles, conflicts, calls>>
    /\ Track

\* RQFile.createInstanceFromLocal, then work.exists of the creation marker
ListWorkExists(s) ==
    /\ At(s, "list", "work.exists")
    /\ \E f \in FaultSet :
        /\ Inject(f)
        /\ ops' = [ops EXCEPT ![s] =
              IF f THEN Fail(@, "Io")
              ELSE IF FsExists(W, getCreateFileName(Current(@)))
                   THEN PushLocal(@)
                   ELSE [@ EXCEPT !.pc = "canDelete"]]
    /\ UNCHANGED <<L, W, R, Q, createdFiles, openFiles, remoteHandles, conflicts, calls>>
    /\ Track

\* rqFile.canDelete; a file that cannot be deleted is logged as a conflict and
\* listed
ListCanDelete(s) ==
    /\ At(s, "list", "canDelete")
    /\ \E f \in FaultSet :
        /\ Inject(f)
        /\ ops' = [ops EXCEPT ![s] =
              IF f THEN Fail(@, "Io")
              ELSE IF canDelete(Current(@))
                   THEN [@ EXCEPT !.pc = "file.delete", !.canDel = TRUE]
                   ELSE PushLocal([@ EXCEPT !.canDel = FALSE, !.logged =
                            @ \cup {[msg |-> "conflict", path |-> Current(ops[s])]}])]
    /\ UNCHANGED <<L, W, R, Q, createdFiles, openFiles, remoteHandles, conflicts, calls>>
    /\ Track

\* localFiles[index].delete
ListFileDelete(s) ==
    /\ At(s, "list", "file.delete")
    /\ \E f \in FaultSet :
        /\ Inject(f)
        /\ LET ok == ~f /\ FsDeleteOk(L, Current(ops[s]))
           IN  /\ ops' = [ops EXCEPT ![s] =
                     IF f THEN Fail(@, "Io")
                     ELSE IF ~ok THEN Fail(@, "NotFound")
                     ELSE [@ EXCEPT !.pc = "deleteWorkFiles"]]
               /\ L' = IF ok THEN FsDelete(L, Current(ops[s])) ELSE L
    /\ UNCHANGED <<W, R, Q, createdFiles, openFiles, remoteHandles, conflicts, calls>>
    /\ Track

\* the orphan is deleted and still put in the result
ListDeleteWorkFilesListed(s) ==
    /\ At(s, "list", "deleteWorkFiles")
    /\ \E f \in FaultSet :
        /\ Inject(f)
        /\ ops' = [ops EXCEPT ![s] =
              IF f THEN Fail(@, "Io")
              ELSE PushLocal([@ EXCEPT
                      !.logged = @ \cup {[msg |-> "deleted", path |-> Current(ops[s])]}])]
        /\ W' = IF f THEN W ELSE deleteWorkFiles(W, Current(ops[s]))
    /\ UNCHANGED <<L, R, Q, createdFiles, openFiles, remoteHandles, conflicts, calls>>
    /\ Track

\* RQFile.deleteWorkFiles; the file is left out of the result
ListDeleteWorkFiles(s) ==
    /\ At(s, "list", "deleteWorkFiles")
    /\ \E f \in FaultSet :
        /\ Inject(f)
        /\ ops' = [ops EXCEPT ![s] =
              IF f THEN Fail(@, "Io")
              ELSE processLocal([@ EXCEPT
                      !.logged = @ \cup {[msg |-> "deleted", path |-> Current(ops[s])]},
                      !.index = @ + 1])]
        /\ W' = IF f THEN W ELSE deleteWorkFiles(W, Current(ops[s]))
    /\ UNCHANGED <<L, R, Q, createdFiles, openFiles, remoteHandles, conflicts, calls>>
    /\ Track

\* ---------------------------------------------- RQTree.deleteDirectory
DeleteDirectoryLocalExists(s) ==
    /\ At(s, "deleteDirectory", "local.exists")
    /\ \E f \in FaultSet :
        /\ Inject(f)
        /\ ops' = [ops EXCEPT ![s] =
              IF f THEN Fail(@, "Io")
              ELSE IF FsExists(L, ops[s].name)
                   THEN [@ EXCEPT !.exists = TRUE, !.pc = "local.deleteDirectory"]
                   ELSE [@ EXCEPT !.pc = "remote.forward"]]
    /\ UNCHANGED <<L, W, R, Q, createdFiles, openFiles, remoteHandles, conflicts, calls>>
    /\ Track

DeleteDirectoryLocal(s) ==
    /\ At(s, "deleteDirectory", "local.deleteDirectory")
    /\ \E f \in FaultSet :
        /\ Inject(f)
        /\ LET ok == ~f /\ FsDeleteDirectoryOk(L, ops[s].name)
           IN  /\ ops' = [ops EXCEPT ![s] =
                     IF f THEN Fail(@, "Io")
                     ELSE IF ~ok
                     THEN Fail(@, IF ops[s].name \in L THEN "NotEmpty" ELSE "NotFound")
                     ELSE [@ EXCEPT !.pc = "remote.deleteDirectory"]]
               /\ L' = IF ok THEN FsDeleteDirectory(L, ops[s].name) ELSE L
    /\ UNCHANGED <<W, R, Q, createdFiles, openFiles, remoteHandles, conflicts, calls>>
    /\ Track

\* DAMTree.deleteDirectory, eagerly after the local delete (then the queue is
\* cleaned) or forwarded when the directory is not cached
DeleteDirectoryRemote(s) ==
    /\ ops[s].kind = "deleteDirectory"
    /\ ops[s].pc \in {"remote.deleteDirectory", "remote.forward"}
    /\ \E f \in FaultSet :
        /\ Inject(f)
        /\ LET ok == ~f /\ ops[s].name \in R
           IN  /\ ops' = [ops EXCEPT ![s] =
                     IF f THEN [Fail(@, "Remote") EXCEPT !.askedRemote = TRUE]
                     ELSE IF ~ok THEN [Fail(@, "NotFound") EXCEPT !.askedRemote = TRUE]
                     ELSE IF @.pc = "remote.forward"
                          THEN [Succeed(@) EXCEPT !.askedRemote = TRUE]
                          ELSE [@ EXCEPT !.pc = "rq.removePath", !.askedRemote = TRUE]]
               /\ R' = IF ok THEN R \ Under(R, ops[s].name) ELSE R
    /\ UNCHANGED <<L, W, Q, createdFiles, openFiles, remoteHandles, conflicts, calls>>
    /\ Track

\* deleteDirectory that leaves the queue as it is
DeleteDirectoryKeepQueue(s) ==
    /\ At(s, "deleteDirectory", "rq.removePath")
    /\ ops' = [ops EXCEPT ![s] = [@ EXCEPT !.pc = "work.exists"]]
    /\ UNCHANGED <<L, W, R, Q, createdFiles, openFiles, remoteHandles, conflicts, calls,
                   faults>>
    /\ Track

\* rq.removePath(name)
DeleteDirectoryRemovePath(s) ==
    /\ At(s, "deleteDirectory", "rq.removePath")
    /\ \E f \in FaultSet :
        /\ Inject(f)
        /\ ops' = [ops EXCEPT ![s] =
              IF f THEN Fail(@, "Queue") ELSE [@ EXCEPT !.pc = "work.exists"]]
        /\ Q' = IF f THEN Q ELSE removePath(Q, ops[s].name)
    /\ UNCHANGED <<L, W, R, createdFiles, openFiles, remoteHandles, conflicts, calls>>
    /\ Track

DeleteDirectoryWorkExists(s) ==
    /\ At(s, "deleteDirectory", "work.exists")
    /\ \E f \in FaultSet :
        /\ Inject(f)
        /\ ops' = [ops EXCEPT ![s] =
              IF f THEN Fail(@, "Io")
              ELSE IF FsExists(W, ops[s].name)
                   THEN [@ EXCEPT !.pc = "work.deleteDirectory"]
                   ELSE Succeed(@)]
    /\ UNCHANGED <<L, W, R, Q, createdFiles, openFiles, remoteHandles, conflicts, calls>>
    /\ Track

DeleteDirectoryWork(s) ==
    /\ At(s, "deleteDirectory", "work.deleteDirectory")
    /\ \E f \in FaultSet :
        /\ Inject(f)
        /\ LET ok == ~f /\ FsDeleteDirectoryOk(W, ops[s].name)
           IN  /\ ops' = [ops EXCEPT ![s] =
                     IF f THEN Fail(@, "Io")
                     ELSE IF ~ok
                     THEN Fail(@, IF ops[s].name \in W THEN "NotEmpty" ELSE "NotFound")
                     ELSE Succeed(@)]
               /\ W' = IF ok THEN FsDeleteDirectory(W, ops[s].name) ELSE W
    /\ UNCHANGED <<L, R, Q, createdFiles, openFiles, remoteHandles, conflicts, calls>>
    /\ Track

\* ------------------------------------------------------- RQTree.rename
\* queueRename: a directory is renamed on the remote next; a file's MOVE is
\* queued and the callback invoked
queueRename(op) ==
    IF isDirectory(op.newName) THEN [op EXCEPT !.pc = "remote.rename"] ELSE Succeed(op)
\* renameCreated: rename the work tree's entry of the old name if it has one
renameCreated(op) ==
    IF op.exists THEN [op EXCEPT !.pc = "work.rename"] ELSE queueRename(op)
\* the queue after a step of rename that left the call in state op
QueueMove(op, qok) ==
    IF op.pc = "done" /\ op.err = "none"
    THEN queueData(Q, op.name, "MOVE", op.newName, qok) ELSE Q
\* only a MOVE that is queued can fail in rq.queueRequest
MayFailQueue(op, g) ==
    g => op.pc = "done" /\ op.err = "none" /\ queueData(Q, op.name, "MOVE", op.newName, TRUE) # Q

RenameLocalExists(s) ==
    /\ At(s, "rename", "local.exists")
    /\ \E f \in FaultSet :
        /\ Inject(f)
        /\ ops' = [ops EXCEPT ![s] =
              IF f THEN Fail(@, "Io")
              ELSE IF FsExists(L, ops[s].name)
                   THEN [@ EXCEPT !.pc = "local.rename"]
                   ELSE [@ EXCEPT !.pc = "remote.forward"]]
    /\ UNCHANGED <<L, W, R, Q, createdFiles, openFiles, remoteHandles, conflicts, calls>>
    /\ Track

RenameLocalRename(s) ==
    /\ At(s, "rename", "local.rename")
    /\ \E f \in FaultSet :
        /\ Inject(f)
        /\ LET ok == ~f /\ FsRenameOk(L, ops[s].name, ops[s].newName)
           IN  /\ ops' = [ops EXCEPT ![s] =
                     IF f THEN Fail(@, "Io")
                     ELSE IF ~ok THEN Fail(@, "NotFound")
                     ELSE [@ EXCEPT !.pc = "createInstance",
                                    !.hadOld = ops[s].name \in L]]
               /\ L' = IF ok THEN FsRename(L, ops[s].name, ops[s].newName) ELSE L
    /\ UNCHANGED <<W, R, Q, createdFiles, openFiles, remoteHandles, conflicts, calls>>
    /\ Track

\* FSFile.createInstance(newName, self.local): a stat of the new path
RenameCreateInstance(s) ==
    /\ At(s, "rename", "createInstance")
    /\ \E f \in FaultSet :
        /\ Inject(f)
        /\ ops' = [ops EXCEPT ![s] =
              IF f THEN Fail(@, "Io")
              ELSE IF ~FsExists(L, ops[s].newName) THEN Fail(@, "NotFound")
              ELSE [@ EXCEPT !.pc = "work.exists", !.file = LocalFile(ops[s].newName)]]
    /\ UNCHANGED <<L, W, R, Q, createdFiles, openFiles, remoteHandles, conflicts, calls>>
    /\ Track

RenameWorkExists(s) ==
    /\ At(s, "rename", "work.exists")
    /\ \E f \in FaultSet :
        /\ Inject(f)
        /\ ops' = [ops EXCEPT ![s] =
              IF f THEN Fail(@, "Io")
              ELSE [@ EXCEPT !.pc = "work.exists.created", !.exists = FsExists(W, ops[s].name)]]
    /\ UNCHANGED <<L, W, R, Q, createdFiles, openFiles, remoteHandles, conflicts, calls>>
    /\ Track

\* the step that never finds the old creation marker
RenameSkipMarker(s) ==
    /\ At(s, "rename", "work.exists.created")
    /\ LET next == renameCreated(ops[s])
       IN  /\ ops' = [ops EXCEPT ![s] = next]
           /\ Q' = QueueMove(next, TRUE)
    /\ UNCHANGED <<L, W, R, createdFiles, openFiles, remoteHandles, conflicts, calls, faults>>
    /\ Track

\* work.exists of the old creation marker; without a marker renameCreated runs
RenameWorkExistsCreated(s) ==
    /\ At(s, "rename", "work.exists.created")
    /\ \E f, g \in FaultSet :
        /\ ~(f /\ g)
        /\ Inject(f \/ g)
        /\ LET createdExists == FsExists(W, getCreateFileName(ops[s].name))
               next == IF f THEN Fail(ops[s], "Io")
                       ELSE IF createdExists
                       THEN [ops[s] EXCEPT !.createdExists = TRUE,
                                           !.pc = "work.rename.created"]
                       ELSE renameCreated(ops[s])
           IN  /\ MayFailQueue(next, g)
               /\ ops' = [ops EXCEPT ![s] = QueueLog(next, g)]
               /\ Q' = QueueMove(next, ~g)
    /\ UNCHANGED <<L, W, R, createdFiles, openFiles, remoteHandles, conflicts, calls>>
    /\ Track

\* the marker is copied to the new name and the old one is kept
RenameWorkCopyCreated(s) ==
    /\ At(s, "rename", "work.rename.created")
    /\ \E f, g \in FaultSet :
        /\ ~(f /\ g)
        /\ Inject(f \/ g)
        /\ LET old == getCreateFileName(ops[s].name)
               new == getCreateFileName(ops[s].newName)
               ok == ~f /\ FsRenameOk(W, old, new)
               next == IF f THEN Fail(ops[s], "Io")
                       ELSE IF ~ok THEN Fail(ops[s], "NotFound")
                       ELSE renameCreated(ops[s])
           IN  /\ MayFailQueue(next, g)
               /\ ops' = [ops EXCEPT ![s] = QueueLog(next, g)]
               /\ W' = IF ok THEN W \cup FsRename(W, old, new) ELSE W
               /\ Q' = QueueMove(next, ~g)
    /\ UNCHANGED <<L, R, createdFiles, openFiles, remoteHandles, conflicts, calls>>
    /\ Track

\* work.rename of the creation marker, then renameCreated
RenameWorkRenameCreated(s) ==
    /\ At(s, "rename", "work.rename.created")
    /\ \E f, g \in FaultSet :
        /\ ~(f /\ g)
        /\ Inject(f \/ g)
        /\ LET old == getCreateFileName(ops[s].name)
               new == getCreateFileName(ops[s].newName)
               ok == ~f /\ FsRenameOk(W, old, new)
               next == IF f THEN Fail(ops[s], "Io")
                       ELSE IF ~ok THEN Fail(ops[s], "NotFound")
                       ELSE renameCreated(ops[s])
           IN  /\ MayFailQueue(next, g)
               /\ ops' = [ops EXCEPT ![s] = QueueLog(next, g)]
               /\ W' = IF ok THEN FsRename(W, old, new) ELSE W
               /\ Q' = QueueMove(next, ~g)
    /\ UNCHANGED <<L, R, createdFiles, openFiles, remoteHandles, conflicts, calls>>
    /\ Track

\* work.rename of the work tree's own entry, then queueRename
RenameWorkRename(s) ==
    /\ At(s, "rename", "work.rename")
    /\ \E f, g \in FaultSet :
        /\ ~(f /\ g)
        /\ Inject(f \/ g)
        /\ LET ok == ~f /\ FsRenameOk(W, ops[s].name, ops[s].newName)
               next == IF f THEN Fail(ops[s], "Io")
                       ELSE IF ~ok THEN Fail(ops[s], "NotFound")
                       ELSE queueRename(ops[s])
           IN  /\ MayFailQueue(next, g)
               /\ ops' = [ops EXCEPT ![s] = QueueLog(next, g)]
               /\ W' = IF ok THEN FsRename(W, ops[s].name, ops[s].newName) ELSE W
               /\ Q' = QueueMove(next, ~g)
    /\ UNCHANGED <<L, R, createdFiles, openFiles, remoteHandles, conflicts, calls>>
    /\ Track

\* the remote rename of a directory that re-parents the queue at the same time,
\* whether or not the remote rename succeeds
RenameRemoteRenameUpdating(s) ==
    /\ ops[s].kind = "rename"
    /\ ops[s].pc \in {"remote.rename", "remote.forward"}
    /\ \E f \in FaultSet :
        /\ Inject(f)
        /\ LET ok == ~f /\ FsRenameOk(R, ops[s].name, ops[s].newName)
           IN  /\ ops' = [ops EXCEPT ![s] =
                     IF f THEN [Fail(@, "Remote") EXCEPT !.askedRemote = TRUE]
                     ELSE IF ~ok THEN [Fail(@, "NotFound") EXCEPT !.askedRemote = TRUE]
                     ELSE IF @.pc = "remote.forward"
                          THEN [Succeed(@) EXCEPT !.askedRemote = TRUE]
                          ELSE [@ EXCEPT !.pc = "rq.updatePath", !.askedRemote = TRUE]]
               /\ R' = IF ok THEN FsRename(R, ops[s].name, ops[s].newName) ELSE R
    /\ Q' = IF ops[s].pc = "remote.rename"
            THEN updatePath(Q, ops[s].name, ops[s].newName) ELSE Q
    /\ UNCHANGED <<L, W, createdFiles, openFiles, remoteHandles, conflicts, calls>>
    /\ Track

\* DAMTree.rename: of a cached directory, before rq.updatePath, or forwarded
\* when the old name is not cached
RenameRemoteRename(s) ==
    /\ ops[s].kind = "rename"
    /\ ops[s].pc \in {"remote.rename", "remote.forward"}
    /\ \E f \in FaultSet :
        /\ Inject(f)
        /\ LET ok == ~f /\ FsRenameOk(R, ops[s].name, ops[s].newName)
           IN  /\ ops' = [ops EXCEPT ![s] =
                     IF f THEN [Fail(@, "Remote") EXCEPT !.askedRemote = TRUE]
                     ELSE IF ~ok THEN [Fail(@, "NotFound") EXCEPT !.askedRemote = TRUE]
                     ELSE IF @.pc = "remote.forward"
                          THEN [Succeed(@) EXCEPT !.askedRemote = TRUE]
                          ELSE [@ EXCEPT !.pc = "rq.updatePath", !.askedRemote = TRUE]]
               /\ R' = IF ok THEN FsRename(R, ops[s].name, ops[s].newName) ELSE R
    /\ UNCHANGED <<L, W, Q, createdFiles, openFiles, remoteHandles, conflicts, calls>>
    /\ Track

RenameUpdatePath(s) ==
    /\ At(s, "rename", "rq.updatePath")
    /\ \E f \in FaultSet :
        /\ Inject(f)
        /\ ops' = [ops EXCEPT ![s] = IF f THEN Fail(@, "Queue") ELSE Succeed(@)]
        /\ Q' = IF f THEN Q ELSE updatePath(Q, ops[s].name, ops[s].newName)
    /\ UNCHANGED <<L, W, R, createdFiles, openFiles, remoteHandles, conflicts, calls>>
    /\ Track

\* ------------------------------------- the overlay file and the processor
\* RQFile close: a file created by createFile is queued as PUT (and leaves
\* createdFiles), a modified one as POST; the bytes are in the local tree
Close(n) ==
    /\ n \in openFiles
    /\ openFiles' = openFiles \ {n}
    /\ remoteHandles' = remoteHandles \ {n}
    /\ createdFiles' = createdFiles \ {n}
    /\ \E dirty \in BOOLEAN, g \in FaultSet :
        /\ dirty \/ n \notin createdFiles
        /\ g => dirty /\ n \in L /\ ~isTempFileName(n)
        /\ Inject(g)
        /\ Q' = IF dirty /\ n \in L
                THEN queueData(Q, n, IF n \in createdFiles THEN "PUT" ELSE "POST", NoPath, ~g)
                ELSE Q
    /\ UNCHANGED <<L, W, R, conflicts, ops, calls>>
    /\ Track

\* RQFile first read of a remote-backed file: its bytes are fetched into the
\* local tree
Materialize(n) ==
    /\ n \in remoteHandles
    /\ n \in R
    /\ n \notin L
    /\ L' = FsCreateFile(L, n)
    /\ remoteHandles' = remoteHandles \ {n}
    /\ UNCHANGED <<W, R, Q, createdFiles, openFiles, conflicts, ops, calls, faults>>
    /\ Track

\* RQProcessor: replay the oldest entry of some parent directory on the remote
\* and take it off the queue; a PUT whose bytes are gone or a MOVE whose source
\* is gone is purged without effect; a PUT that succeeds removes the marker
Oldest(i) == \A j \in 1..(i - 1) : getParentPath(Q[j].path) # getParentPath(Q[i].path)
Drain(i) ==
    /\ i \in 1..Len(Q)
    /\ Oldest(i)
    /\ LET e == Q[i]
           upload == e.method \in {"PUT", "POST"} /\ e.path \in L
           move == e.method = "MOVE" /\ FsRenameOk(R, e.path, e.destPath)
       IN  /\ R' = IF upload THEN FsCreateFile(R, e.path)
                   ELSE IF e.method = "DELETE" THEN R \ {e.path}
                   ELSE IF move THEN FsRename(R, e.path, e.destPath)
                   ELSE R
           /\ W' = IF upload /\ e.method = "PUT" THEN deleteWorkFiles(W, e.path) ELSE W
    /\ Q' = [j \in 1..(Len(Q) - 1) |-> IF j < i THEN Q[j] ELSE Q[j + 1]]
    /\ UNCHANGED <<L, createdFiles, openFiles, remoteHandles, conflicts, ops, calls, faults>>
    /\ Track

\* ----------------------------------------------------------- behaviours
Dir == <<<<"a">>>>
OtherDir == <<<<"b">>>>
File(n) == Append(Dir, n)
\* the files the trees may hold at the start, and the arguments of the calls
SeedFiles == {File(<<"x">>), File(<<"~", "t">>)}
CallFiles == {File(<<"x">>), File(<<"~", "t">>)}
Renames ==
    {<<File(<<"x">>), File(<<"y">>)>>, <<File(<<"x">>), File(<<"~", "t">>)>>,
     <<File(<<"~", "t">>), File(<<"x">>)>>, <<File(<<"~", "t">>), File(<<"~", "t">>)>>,
     <<Dir, OtherDir>>}

Init ==
    /\ \E lf \in SUBSET SeedFiles : L = {Dir} \cup lf
    /\ \E rf \in SUBSET SeedFiles : R = {Dir} \cup rf
    /\ W = {}
    /\ Q = <<>>
    /\ createdFiles = {}
    /\ openFiles = {}
    /\ remoteHandles = {}
    /\ conflicts = {}
    /\ ops = [s \in Slots |-> IdleOp]
    /\ calls = 0
    /\ faults = 0
    /\ lastEnq = NoEnq
    /\ delSince = {}
    /\ dupDelete = {}
    /\ delRet = {}
    /\ delRetL = {}
    /\ hid = [s \in Slots |-> {}]
    /\ hidL = [s \in Slots |-> {}]
    /\ renamedDirs = {}

CallExists(s, cap) == \E n \in CallFiles : Call(s, cap, "exists", "local.exists", n, NoPath)
CallOpen(s, cap) == \E n \in CallFiles : Call(s, cap, "open", "remote.exists", n, NoPath)
CallList(s, cap) == Call(s, cap, "list", "remote.list", Append(Dir, Star), NoPath)
CallCreateFile(s, cap) ==
    \E n \in CallFiles : Call(s, cap, "createFile", "local.createFile", n, NoPath)
CallCreateDirectory(s, cap) ==
    Call(s, cap, "createDirectory", "local.createDirectory", Dir, NoPath)
CallDelete(s, cap) == \E n \in CallFiles : Call(s, cap, "delete", "local.exists", n, NoPath)
CallDeleteDirectory(s, cap) ==
    Call(s, cap, "deleteDirectory", "local.exists", Dir, NoPath)
CallRename(s, cap) ==
    \E r \in Renames : Call(s, cap, "rename", "local.exists", r[1], r[2])

Handlers(s, cap) ==
    \/ CallExists(s, cap) \/ ExistsLocalExists(s) \/ ExistsRemoteExists(s)
    \/ CallOpen(s, cap) \/ OpenRemoteExists(s) \/ OpenLocalExists(s)
    \/ OpenLocalOpen(s) \/ OpenRemoteOpen(s)
    \/ CallList(s, cap) \/ ListRemoteList(s) \/ ListLocalExists(s) \/ ListLocalList(s)
    \/ ListGetRequests(s) \/ ListWorkExists(s) \/ ListCanDelete(s)
    \/ ListFileDelete(s) \/ ListDeleteWorkFiles(s)
    \/ CallCreateFile(s, cap) \/ CreateFileLocal(s) \/ CreateFileWork(s)
    \/ CallCreateDirectory(s, cap) \/ CreateDirectoryLocal(s) \/ CreateDirectoryRemote(s)
    \/ CallDelete(s, cap) \/ DeleteLocalExists(s) \/ DeleteLocalDelete(s)
    \/ DeleteDeleteWorkFiles(s) \/ DeleteRemoteDelete(s)
    \/ CallDeleteDirectory(s, cap) \/ DeleteDirectoryLocalExists(s)
    \/ DeleteDirectoryLocal(s) \/ DeleteDirectoryRemote(s)
    \/ DeleteDirectoryRemovePath(s) \/ DeleteDirectoryWorkExists(s)
    \/ DeleteDirectoryWork(s)
    \/ CallRename(s, cap) \/ RenameLocalExists(s) \/ RenameLocalRename(s)
    \/ RenameCreateInstance(s) \/ RenameWorkExists(s) \/ RenameWorkExistsCreated(s)
    \/ RenameWorkRenameCreated(s) \/ RenameWorkRename(s) \/ RenameRemoteRename(s)
    \/ RenameUpdatePath(s)
    \/ Return(s)

Environment ==
    \/ \E n \in FilePaths : Close(n)
    \/ \E n \in FilePaths : Materialize(n)
    \/ \E i \in 1..Len(Q) : Drain(i)

\* overlay operations interleave at their asynchronous calls
Next == (\E s \in Slots : Handlers(s, MaxOps)) \/ Environment
Spec == Init /\ [][Next]_vars

\* one overlay operation at a time; the processor and the clients' files still
\* run beside it
SeqNext == (\E s \in Slots : Handlers(s, 1)) \/ Environment
SeqSpec == Init /\ [][SeqNext]_vars

\* list alone, over every content of the trees, the markers, the open files
\* and the queue that a directory of three names can have; the directory may
\* be missing from the local tree
ListFiles == {File(<<"x">>), File(<<"y">>), File(<<"~", "t">>)}
ListQueues ==
    {<<>>, <<Entry("DELETE", File(<<"x">>), NoPath)>>,
     <<Entry("DELETE", File(<<"x">>), NoPath), Entry("MOVE", File(<<"y">>), File(<<"x">>))>>}
ListInitOver(files, queues) ==
    /\ \E lf \in SUBSET files, cached \in BOOLEAN :
        /\ cached \/ lf = {}
        /\ L = IF cached THEN {Dir} \cup lf ELSE {}
        /\ \E mk \in SUBSET {n \in lf : ~isTempFileName(n)} :
               W = IF mk = {} THEN {} ELSE {Dir} \cup {getCreateFileName(n) : n \in mk}
        /\ \E of \in SUBSET (lf \cap {File(<<"x">>)}) : openFiles = of
    /\ \E rf \in SUBSET files : R = {Dir} \cup rf
    /\ Q \in queues
    /\ createdFiles = {}
    /\ remoteHandles = {}
    /\ conflicts = {}
    /\ ops = [s \in Slots |-> IdleOp]
    /\ calls = 0
    /\ faults = 0
    /\ lastEnq = NoEnq
    /\ delSince = {}
    /\ dupDelete = {}
    /\ delRet = {}
    /\ delRetL = {}
    /\ hid = [s \in Slots |-> {}]
    /\ hidL = [s \in Slots |-> {}]
    /\ renamedDirs = {}
ListInit == ListInitOver(ListFiles, ListQueues)
ListNext ==
    \E s \in Slots :
        \/ CallList(s, 1) \/ ListRemoteList(s) \/ ListLocalExists(s) \/ ListLocalList(s)
        \/ ListGetRequests(s) \/ ListWorkExists(s) \/ ListCanDelete(s)
        \/ ListFileDelete(s) \/ ListDeleteWorkFiles(s)
        \/ Return(s)
ListSpec == ListInit /\ [][ListNext]_vars

\* list alone, over a directory whose names include the two normalization
\* forms of one name: precomposed (one code point) and decomposed (two); a
\* tree holds the name in one form only
NormFiles == {File(<<"x">>), File(<<"e'">>), File(<<"e", "'">>)}
OneForm(T) == \A p, q \in T : unicodeEquals(getName(p), getName(q)) => p = q
NormInit == ListInitOver(NormFiles, {<<>>}) /\ OneForm(L \ {Root}) /\ OneForm(R \ {Root})
NormSpec == NormInit /\ [][ListNext]_vars

\* list called again once the call before has invoked its callback, the
\* result of the call before kept by its client
CallListAgain(s) ==
    /\ \A t \in Slots : ops[t].pc \in {"idle", "done", "threw"}
    /\ CallList(s, MaxOps)
TwiceNext ==
    \E s \in Slots :
        \/ CallListAgain(s) \/ ListRemoteList(s) \/ ListLocalExists(s) \/ ListLocalList(s)
        \/ ListGetRequests(s) \/ ListWorkExists(s) \/ ListCanDelete(s)
        \/ ListFileDelete(s) \/ ListDeleteWorkFiles(s)
        \/ Return(s)
TwiceSpec == ListInit /\ [][TwiceNext]_vars

\* the two read operations that ask the remote tree, open and list, one call
\* at a time, from the same states
ReadNext ==
    \/ ListNext
    \/ \E s \in Slots :
        \/ CallOpen(s, 1) \/ OpenRemoteExists(s) \/ OpenLocalExists(s)
        \/ OpenLocalOpen(s) \/ OpenRemoteOpen(s)
ReadSpec == ListInit /\ [][ReadNext]_vars

\* ---------------------------------------------------------------- claims
ListDone(s) == At(s, "list", "done") /\ ops[s].err = "none"
\* the result of a list holds an entry with the basename of path n
Listed(op, n) == \E i \in 1..Len(op.rqFiles) : getName(op.rqFiles[i].name) = getName(n)
InRemoteListing(op, n) == \E i \in 1..Len(op.remoteFiles) : op.remoteFiles[i] = n

\* C1 as stated: a list called after delete(n) returned omits n for as long as
\* the DELETE entry of n is pending in Q.
C1_DeleteHides ==
    \A s \in Slots : ListDone(s) => \A n \in hid[s] : ~Listed(ops[s], n)

\* C1, amended: a list called after delete(n) returned omits n for as long as
\* the DELETE is the latest pending entry of n in Q, n has not come back into
\* L and L still holds the directory of n.
C1_DeleteHidesUnlessLocal ==
    \A s \in Slots : ListDone(s) => \A n \in hidL[s] : ~Listed(ops[s], n)

\* C1 witness: such a list has finished while the remote listing it merged
\* still held n.
C1_Witness ==
    \E s \in Slots : ListDone(s) /\ \E n \in hidL[s] : InRemoteListing(ops[s], n)

\* the orphan branch of list reaches file.delete only with canDelete true
C2_DeletedOnlyIfCanDelete ==
    \A s \in Slots :
        At(s, "list", "file.delete") \/ At(s, "list", "deleteWorkFiles") => ops[s].canDel
\* a file whose canDelete was false is in the result and still in L
C2_ConflictKept ==
    \A s \in Slots : ListDone(s) =>
        \A e \in ops[s].logged :
            e.msg = "conflict" => Listed(ops[s], e.path) /\ e.path \in L
\* a Conflict event was raised for every such file
C2_ConflictRaised ==
    \A s \in Slots : ListDone(s) =>
        \A e \in ops[s].logged : e.msg = "conflict" => e.path \in conflicts

\* C2 as stated: list deletes a local file that is absent from R and has no
\* marker only when canDelete returned true; when canDelete returned false the
\* file stays in L, is in the result, and a Conflict event is raised for it.
C2_OrphanSafety == C2_DeletedOnlyIfCanDelete /\ C2_ConflictKept /\ C2_ConflictRaised

TempEntry(e) == isTempFileName(e.path) \/ (e.destPath # NoPath /\ isTempFileName(e.destPath))
AllTempEntry(e) == isTempFileName(e.path) /\ (e.destPath = NoPath \/ isTempFileName(e.destPath))

\* C3 as stated: Q never holds an entry whose path or destPath has a
\* temporary basename.
C3_TempIsolation == \A i \in 1..Len(Q) : ~TempEntry(Q[i])

\* C3, amended: Q never holds an entry all of whose names are temporary: none
\* with a temporary path and no destPath, none with a temporary path and a
\* temporary destPath.
C3_NoAllTempEntry == \A i \in 1..Len(Q) : ~AllTempEntry(Q[i])

\* C3 witness: a rename between two temporary names ran its local branch to
\* the end, and Q holds a MOVE with exactly one temporary side.
C3_Witness ==
    /\ \E s \in Slots : /\ At(s, "rename", "done")
                        /\ ops[s].err = "none"
                        /\ ops[s].file # NoFile
                        /\ isTempFileName(ops[s].name)
                        /\ isTempFileName(ops[s].newName)
    /\ \E i \in 1..Len(Q) : Q[i].method = "MOVE" /\ TempEntry(Q[i])

\* C4 as stated: once rename(d, e) of a directory has returned successfully
\* and d has not come back into L, Q holds no entry keyed under d.
C4_RenameAtomic ==
    \A d \in renamedDirs : \A i \in 1..Len(Q) : ~KeyedUnder(Q[i], d)

Quiescent == \A s \in Slots : ops[s].kind = "idle"
Markers == {n \in FilePaths : getCreateFileName(n) \in W}
Uploading(n) == HasEntry(Q, "PUT", n) \/ HasEntry(Q, "POST", n)

C6_EnqueuedFromLocal ==
    /\ lastEnq.e.method \in {"PUT", "POST", "MOVE"} => lastEnq.inL
    /\ lastEnq.e.method = "DELETE" => lastEnq.wasInL

\* C6, amended: a PUT or POST entry is appended while L contains its path; a
\* DELETE or MOVE entry is appended by an operation whose local delete or
\* local rename found its path in L immediately before.
C6_EnqueuedAfterLocalStep ==
    /\ lastEnq.e.method \in {"PUT", "POST"} => lastEnq.inL
    /\ lastEnq.e.method \in {"DELETE", "MOVE"} => lastEnq.wasInL

\* C6 witness: a MOVE has just been appended whose path is no longer in L while
\* its destPath is.
C6_Witness ==
    /\ lastEnq.e.method = "MOVE"
    /\ ~lastEnq.inL
    /\ lastEnq.wasInL
    /\ lastEnq.destInL

\* C7 as stated: Q never receives two DELETE entries for the same name without
\* a createFile of that name in between.
C7_NoDuplicateDelete == dupDelete = {}

\* slot s takes a step of kind at pc and no collaborator call fails in it
Steps(s, kind, pc) == At(s, kind, pc) /\ ops'[s] # ops[s] /\ faults' = faults
\* the step hands file f to the callback of the open in slot s
Yields(s, f) ==
    /\ ops'[s].pc = "done"
    /\ ops'[s].err = "none"
    /\ ops'[s].file = f
    /\ ops[s].name \in openFiles'

\* C8: exists(name) returns true as soon as L has name, without asking R; when
\* L has not, it returns what R reports, the error of R included.
C8_Exists ==
    [][\A s \in Slots :
        /\ Steps(s, "exists", "local.exists") /\ FsExists(L, ops[s].name)
              => /\ ops'[s].pc = "done" /\ ops'[s].err = "none"
                 /\ ops'[s].result /\ ~ops'[s].askedRemote
        /\ Steps(s, "exists", "local.exists") /\ ~FsExists(L, ops[s].name)
              => ops'[s].pc = "remote.exists" /\ ~ops'[s].askedRemote
        /\ Steps(s, "exists", "remote.exists")
              => /\ ops'[s].pc = "done" /\ ops'[s].err = "none"
                 /\ ops'[s].result = FsExists(R, ops[s].name)
        /\ At(s, "exists", "remote.exists") /\ ops'[s] # ops[s] /\ faults' # faults
              => ops'[s].pc = "done" /\ ops'[s].err = "Remote"]_vars

\* C8 witness: exists has answered true from L for a name R does not hold, and
\* R was not asked.
C8_Witness ==
    \E s \in Slots : /\ At(s, "exists", "done")
                     /\ ops[s].err = "none"
                     /\ ops[s].result
                     /\ ~ops[s].askedRemote
                     /\ ops[s].name \in L
                     /\ ops[s].name \notin R

\* C9: open(name) yields a remote-backed overlay file for (remoteExists, no
\* local), an overlay file of both handles for (remoteExists, local), a
\* local-only overlay file for (no remote, local), and fails with NotFound and
\* no overlay file for (no remote, no local).
C9_OpenMatrix ==
    [][\A s \in Slots :
        LET n == ops[s].name
        IN  /\ Steps(s, "open", "remote.exists")
                  => /\ ops'[s].pc = "local.exists"
                     /\ ops'[s].remoteExists = FsExists(R, n)
            /\ Steps(s, "open", "local.exists") /\ ops[s].remoteExists /\ ~FsExists(L, n)
                  => Yields(s, RemoteFile(n))
            /\ Steps(s, "open", "local.exists") /\ ~(ops[s].remoteExists /\ ~FsExists(L, n))
                  => ops'[s].pc = "local.open" /\ ops'[s].exists = FsExists(L, n)
            /\ Steps(s, "open", "local.open") /\ ~ops[s].remoteExists /\ FsExists(L, n)
                  => Yields(s, LocalFile(n))
            /\ Steps(s, "open", "local.open") /\ ~ops[s].remoteExists /\ ~FsExists(L, n)
                  => /\ ops'[s].pc = "done" /\ ops'[s].err = "NotFound"
                     /\ ops'[s].file = NoFile /\ openFiles' = openFiles
            /\ Steps(s, "open", "local.open") /\ ops[s].remoteExists /\ FsExists(L, n)
                  => ops'[s].pc = "remote.open"
            /\ Steps(s, "open", "remote.open") /\ FsExists(R, n)
                  => Yields(s, LocalRemoteFile(n))]_vars

\* C9 witness: an open that found the name on neither side has failed with
\* NotFound and no overlay file.
C9_Witness ==
    \E s \in Slots : /\ At(s, "open", "done")
                     /\ ops[s].askedRemote
                     /\ ~ops[s].remoteExists
                     /\ ~ops[s].exists
                     /\ ops[s].err = "NotFound"
                     /\ ops[s].file = NoFile

\* the basenames of a sequence of paths, of a sequence of overlay files
PathNames(sq) == [i \in 1..Len(sq) |-> getName(sq[i])]
FileBaseNames(sq) == [i \in 1..Len(sq) |-> getName(sq[i].name)]
Hidden(op, p) == op.requests[getName(p)] = "DELETE"
\* the remote entries that no pending DELETE hides, in remote-listing order
Kept(op) == SelectSeq(op.remoteFiles, LAMBDA p : ~Hidden(op, p))
HasName(sq, n) == \E i \in 1..Len(sq) : getName(sq[i]) = n
Orphaned(op, p) == [msg |-> "deleted", path |-> p] \in op.logged
Merged(s) == ListDone(s) /\ ops[s].exists

\* C10 as stated: the result of list is the non-hidden remote entries in
\* remote-listing order, each replaced in place by the merged entry when it is
\* also local, followed by the local entries without a remote counterpart (that
\* list did not delete) in local-listing order.
C10_MergeOrder ==
    \A s \in Slots : Merged(s) =>
        LET op == ops[s]
            kept == Kept(op)
            localOnly == SelectSeq(op.localFiles,
                            LAMBDA p : ~HasName(op.remoteFiles, getName(p)) /\ ~Orphaned(op, p))
        IN  /\ FileBaseNames(op.rqFiles) = PathNames(kept) \o PathNames(localOnly)
            /\ \A i \in 1..Len(kept) :
                   op.rqFiles[i].local = HasName(op.localFiles, getName(kept[i]))

\* C10, amended: the result of list is the non-hidden remote entries in
\* remote-listing order, each replaced in place by the merged entry when a
\* local entry that is not temporary has its name, followed in local-listing
\* order by every temporary local entry and every other local entry that has
\* no non-hidden remote counterpart and that list did not delete as an orphan.
C10_MergeOrderTemp ==
    \A s \in Slots : Merged(s) =>
        LET op == ops[s]
            kept == Kept(op)
            plain == SelectSeq(op.localFiles, LAMBDA p : ~isTempFileName(p))
            appended == SelectSeq(op.localFiles,
                            LAMBDA p : \/ isTempFileName(p)
                                       \/ ~HasName(kept, getName(p)) /\ ~Orphaned(op, p))
        IN  /\ FileBaseNames(op.rqFiles) = PathNames(kept) \o PathNames(appended)
            /\ \A i \in 1..Len(kept) :
                   /\ op.rqFiles[i].remote
                   /\ op.rqFiles[i].local = HasName(plain, getName(kept[i]))
            /\ \A i \in (Len(kept) + 1)..Len(op.rqFiles) :
                   op.rqFiles[i].local /\ ~op.rqFiles[i].remote

\* C10 witness: a merged result with two remote entries, the second of them
\* merged in place, a temporary local entry listed beside its remote
\* namesake, and a local entry after the remote ones.
C10_Witness ==
    \E s \in Slots :
        /\ Merged(s)
        /\ Len(Kept(ops[s])) >= 2
        /\ ops[s].rqFiles[2].local
        /\ ~ops[s].rqFiles[1].local
        /\ \E i, j \in 1..Len(ops[s].rqFiles) :
               /\ i < j
               /\ FileBaseNames(ops[s].rqFiles)[i] = FileBaseNames(ops[s].rqFiles)[j]
        /\ Len(ops[s].rqFiles) > Len(Kept(ops[s])) + 1

\* C11: when L does not hold the directory of the pattern, list hands the
\* remote listing to its callback, same entries in the same order, straight
\* after local.exists (no step that reads Q or W follows), and no step of the
\* call changes L, W or Q.
C11_NoParentList ==
    [][\A s \in Slots :
        /\ Steps(s, "list", "remote.list") => UNCHANGED <<L, W, Q>>
        /\ Steps(s, "list", "local.exists") /\ ~FsExists(L, getParentPath(ops[s].name))
              => /\ ops'[s].pc = "done"
                 /\ ops'[s].err = "none"
                 /\ ops'[s].rqFiles = [i \in 1..Len(ops[s].remoteFiles) |->
                                          RemoteFile(ops[s].remoteFiles[i])]
                 /\ ops'[s].requests = NoRequests
                 /\ ops'[s].localFiles = <<>>
                 /\ UNCHANGED <<L, W, Q>>]_vars

\* C11 witness: a list of a directory L does not hold has returned two remote
\* entries, one of them a name that a DELETE is pending for.
C11_Witness ==
    \E s \in Slots :
        /\ ListDone(s)
        /\ ~ops[s].exists
        /\ ~FsExists(L, getParentPath(ops[s].name))
        /\ Len(ops[s].rqFiles) >= 2
        /\ \E i \in 1..Len(ops[s].rqFiles) : LastFor(Q, ops[s].rqFiles[i].name) = "DELETE"

\* the step by which a call of the given kind in slot s invokes its callback
Finishes(s, kind) ==
    /\ ops[s].kind = kind
    /\ ops[s].pc # "done"
    /\ ops'[s].pc = "done"
PutsFor(q, n) == Cardinality({i \in 1..Len(q) : q[i] = Entry("PUT", n, NoPath)})
S1File == File(<<"x">>)
\* the state of S1 as a list sees it at its last step: x.txt was created by
\* createFile and not closed since, it is the only local entry, and the remote
\* directory was empty
S1Listing(s) ==
    /\ S1File \in createdFiles
    /\ S1File \in L
    /\ getCreateFileName(S1File) \in W
    /\ ops[s].remoteFiles = <<>>
    /\ ops[s].localFiles = <<S1File>>

\* C12 as stated: after createFile("/a/x.txt"), when list("/a/*") has returned
\* x.txt alone as a local-only entry, Q holds exactly one PUT for /a/x.txt.
C12_CreateQueuesPut ==
    \A s \in Slots :
        ListDone(s) /\ S1File \in createdFiles /\ ops[s].rqFiles = <<LocalFile(S1File)>>
            => PutsFor(Q, S1File) = 1

\* C12 amended: no step of createFile changes Q; a list at S1 returns exactly
\* the one local-only entry x.txt and W keeps /a/x.txt.rqcf; the PUT for a
\* created file is appended, once, when the file is closed.
C12_CreateThenListDeferred ==
    [][/\ \A s \in Slots : ops[s].kind = "createFile" /\ ops'[s] # ops[s] => Q' = Q
       /\ \A s \in Slots :
            Finishes(s, "list") /\ faults' = faults /\ S1Listing(s)
                => /\ ops'[s].err = "none"
                   /\ ops'[s].rqFiles = <<LocalFile(S1File)>>
                   /\ S1File \in L'
                   /\ getCreateFileName(S1File) \in W'
       /\ \A n \in FilePaths :
            /\ n \in createdFiles /\ n \notin createdFiles' /\ faults' = faults
            /\ n \in L /\ ~isTempFileName(n)
            => /\ Q' = Append(Q, Entry("PUT", n, NoPath))
               /\ PutsFor(Q', n) = PutsFor(Q, n) + 1]_vars

\* C12 witness: createFile("/a/x.txt") has succeeded, a list has returned the
\* one local-only entry, the marker is in W, and Q is still empty.
C12_Witness ==
    \E s \in Slots :
        /\ ListDone(s)
        /\ S1File \in createdFiles
        /\ ops[s].rqFiles = <<LocalFile(S1File)>>
        /\ ops[s].remoteFiles = <<>>
        /\ getCreateFileName(S1File) \in W
        /\ S1File \in L
        /\ Q = <<>>

DeletesFor(q, n) == Cardinality({i \in 1..Len(q) : q[i] = Entry("DELETE", n, NoPath)})

\* C13: S3. delete(n) of a non-temporary file n that L holds, when its calls
\* succeed: the step after local.delete has taken n out of L and appended the
\* one entry DELETE n to Q; the step that invokes the callback has taken
\* n.rqcf out of W, reports no error and changes neither Q nor L again.
\* A list called after that delete returned, over a directory
\* whose only names are such deleted files, returns the empty sequence.
C13_DeleteQueued ==
    [][\A s \in Slots :
        LET n == ops[s].name
        IN  /\ Steps(s, "delete", "local.delete") /\ ~isTempFileName(n) /\ FsDeleteOk(L, n)
                => /\ ops'[s].pc = "deleteWorkFiles"
                   /\ n \notin L'
                   /\ Q' = Append(Q, Entry("DELETE", n, NoPath))
                   /\ DeletesFor(Q', n) = DeletesFor(Q, n) + 1
            /\ Steps(s, "delete", "deleteWorkFiles")
                => /\ ops'[s].pc = "done"
                   /\ ops'[s].err = "none"
                   /\ L' = L
                   /\ getCreateFileName(n) \notin W'
                   /\ Q' = Q
            /\ /\ Finishes(s, "list") /\ faults' = faults /\ ops'[s].err = "none"
               /\ hidL'[s] # {}
               /\ \A i \in 1..Len(ops[s].remoteFiles) : ops[s].remoteFiles[i] \in hidL'[s]
               /\ ops'[s].localFiles = <<>>
               => ops'[s].rqFiles = <<>>]_vars

\* C13 witness: /a/x.txt was created, then deleted, and the list that followed
\* is empty; x.txt is out of L, its marker is out of W and Q holds one DELETE.
C13_Witness ==
    \E s \in Slots :
        /\ ListDone(s)
        /\ S1File \in hidL[s]
        /\ S1File \in createdFiles
        /\ ops[s].exists
        /\ ops[s].rqFiles = <<>>
        /\ S1File \notin L
        /\ getCreateFileName(S1File) \notin W
        /\ DeletesFor(Q, S1File) = 1

MovesFor(q, old, new) == Cardinality({i \in 1..Len(q) : q[i] = Entry("MOVE", old, new)})
\* rename of a file, not of a directory
FileRename(op) == op.kind = "rename" /\ ~isDirectory(op.name) /\ ~isDirectory(op.newName)

\* C14: S6. rename(old, new) of a non-temporary file that L holds and that has
\* its creation marker in W, when its calls succeed: local.rename leaves L
\* with new and without old; the step that invokes the callback leaves W with
\* new.rqcf and without old.rqcf and appends the one entry MOVE old -> new,
\* keyed under parent(old), to Q; no other step of the call changes Q, no step
\* changes R, and the remote tree was never asked.
C14_RenameFile ==
    [][\A s \in Slots :
        LET old == ops[s].name
            new == ops[s].newName
        IN  FileRename(ops[s]) /\ ~isTempFileName(old) /\ ops'[s] # ops[s] /\ faults' = faults
            => /\ At(s, "rename", "local.rename") /\ FsRenameOk(L, old, new)
                    => old \notin L' /\ new \in L'
               /\ ops[s].pc \notin {"remote.forward", "done"} => R' = R /\ ~ops'[s].askedRemote
               /\ ~Finishes(s, "rename") => Q' = Q
               /\ Finishes(s, "rename") /\ ops'[s].err = "none" /\ ops'[s].createdExists
                    => /\ new \in L'
                       /\ getCreateFileName(new) \in W'
                       /\ getCreateFileName(old) \notin W'
                       /\ Q' = Append(Q, Entry("MOVE", old, new))
                       /\ getParentPath(Q'[Len(Q')].path) = getParentPath(old)
                       /\ MovesFor(Q', old, new) = MovesFor(Q, old, new) + 1]_vars

\* C14 witness: /a/x.txt, created by createFile, has been renamed; its marker
\* moved with it, the newest entry of Q is the MOVE and R was not asked.
C14_Witness ==
    \E s \in Slots :
        /\ At(s, "rename", "done")
        /\ ops[s].err = "none"
        /\ ops[s].name = S1File
        /\ S1File \in createdFiles
        /\ ops[s].createdExists
        /\ ~ops[s].askedRemote
        /\ ops[s].newName \in L
        /\ S1File \notin L
        /\ getCreateFileName(ops[s].newName) \in W
        /\ getCreateFileName(S1File) \notin W
        /\ Q = <<Entry("MOVE", S1File, ops[s].newName)>>

\* the call in slot s has logged that rq.queueRequest failed
QueueFailed(op) == QueueError(op) \in op.logged

\* C15: when rq.queueRequest fails inside delete(n) or inside the rename of a
\* file, both of names L holds, the call goes on as if it had not: delete has
\* taken n out of L, goes on to deleteWorkFiles, which removes n.rqcf, and
\* invokes its callback without error; rename invokes its callback without
\* error with new in L and the creation marker, if there was one, moved to
\* new.rqcf; Q is left as it was.
C15_QueueFailureSwallowed ==
    [][\A s \in Slots :
        LET old == ops[s].name
            new == ops[s].newName
        IN  ops'[s] # ops[s] =>
            /\ At(s, "delete", "local.delete") /\ QueueFailed(ops'[s])
                => /\ ops'[s].pc = "deleteWorkFiles"
                   /\ ops'[s].err = "none"
                   /\ old \in L /\ old \notin L'
                   /\ Q' = Q
            /\ At(s, "delete", "deleteWorkFiles") /\ QueueFailed(ops[s]) /\ faults' = faults
                => /\ ops'[s].pc = "done"
                   /\ ops'[s].err = "none"
                   /\ L' = L
                   /\ getCreateFileName(old) \notin W'
            /\ FileRename(ops[s]) /\ ops[s].pc # "done" /\ QueueFailed(ops'[s])
                => /\ ops'[s].pc = "done"
                   /\ ops'[s].err = "none"
                   /\ new \in L'
                   /\ ops'[s].createdExists
                        => getCreateFileName(new) \in W' /\ getCreateFileName(old) \notin W'
                   /\ Q' = Q]_vars

\* C15 witness: delete(/a/x.txt) of a created file has invoked its callback
\* without error although rq.queueRequest failed: the file and its marker are
\* gone and Q has no DELETE.
C15_Witness ==
    \E s \in Slots :
        /\ At(s, "delete", "done")
        /\ QueueFailed(ops[s])
        /\ ops[s].err = "none"
        /\ ops[s].name = S1File
        /\ S1File \in createdFiles
        /\ S1File \notin L
        /\ getCreateFileName(S1File) \notin W
        /\ DeletesFor(Q, S1File) = 0

\* the step of slot s is a call of the remote tree, by open or by list, that failed
RemoteFails(s) ==
    /\ \/ ops[s].kind = "open" /\ ops[s].pc \in {"remote.exists", "remote.open"}
       \/ At(s, "list", "remote.list")
    /\ ops'[s] # ops[s]
    /\ faults' # faults
\* the step of slot s is a call of the local tree, by list, that failed
LocalFails(s) ==
    /\ ops[s].kind = "list" /\ ops[s].pc \in {"local.exists", "local.list", "file.delete"}
    /\ ops'[s] # ops[s]
    /\ faults' # faults
\* the list has logged that it deleted the orphan n and its work files
LoggedDeleted(op, n) == [msg |-> "deleted", path |-> n] \in op.logged
\* the steps of a read operation that write nothing: all of open, and all of
\* list but the deletion of an orphan
ReadOnlySteps ==
    \A s \in Slots :
        /\ ops'[s] # ops[s]
        /\ \/ ops[s].kind = "open"
           \/ ops[s].kind = "list" /\ ops[s].pc \notin {"file.delete", "deleteWorkFiles"}
        => UNCHANGED <<L, W, Q>>

\* C16 as stated: when R fails during open or list, or L fails during list's
\* merge, the call ends with that error and L, W and Q are as they were when
\* the call began: every file of the local listing is still in L and no
\* orphan's work files were removed.
C16_ReadErrorsLeaveState ==
    [][\A s \in Slots :
        /\ RemoteFails(s) => ops'[s].pc = "done" /\ ops'[s].err = "Remote"
        /\ LocalFails(s) => ops'[s].pc = "done" /\ ops'[s].err = "Io"
        /\ RemoteFails(s) \/ LocalFails(s)
            => /\ UNCHANGED <<L, W, Q>>
               /\ \A i \in 1..Len(ops[s].localFiles) :
                    /\ ops[s].localFiles[i] \in L'
                    /\ ~LoggedDeleted(ops'[s], ops[s].localFiles[i])]_vars

\* C16 amended: the call ends with that error, the failing step changes
\* nothing, no step of the call changes Q, and after a failure of R the trees
\* are as they were when the call began; after a failure of L in the merge,
\* the orphans the merge had deleted before are still gone from L, and only
\* they.
C16_ReadErrorsFatal ==
    [][/\ ReadOnlySteps
       /\ \A s \in Slots :
            /\ ops'[s] # ops[s] /\ ops[s].kind \in {"open", "list"} => Q' = Q
            /\ RemoteFails(s) => ops'[s].pc = "done" /\ ops'[s].err = "Remote"
            /\ LocalFails(s) => ops'[s].pc = "done" /\ ops'[s].err = "Io"
            /\ RemoteFails(s) \/ LocalFails(s)
                => /\ UNCHANGED <<L, W, Q>>
                   /\ \A i \in 1..Len(ops[s].localFiles) :
                        LET lf == ops[s].localFiles[i]
                        IN  /\ lf \notin L' => LoggedDeleted(ops'[s], lf)
                            /\ LoggedDeleted(ops'[s], lf)
                                 => lf \notin L' /\ getCreateFileName(lf) \notin W']_vars

\* C16 witness: a list has ended with the error of the local tree after its
\* merge had deleted an orphan.
C16_Witness ==
    \E s \in Slots :
        /\ At(s, "list", "done")
        /\ ops[s].err = "Io"
        /\ ops[s].canDel
        /\ Current(ops[s]) \in L
        /\ \E i \in 1..Len(ops[s].localFiles) :
            /\ LoggedDeleted(ops[s], ops[s].localFiles[i])
            /\ ops[s].localFiles[i] \notin L

\* C17: the call queueData(name, method, destName) made by delete and by the
\* rename of a file, when rq.queueRequest succeeds, appends exactly the entry
\* {method, path: name, destPath: destName} to Q, unless name is temporary and
\* destName is absent or temporary too, and then Q is unchanged: the delete of
\* a temporary name and the rename between two temporary names are not queued,
\* a rename with exactly one temporary side is.
C17_QueueData ==
    [][\A s \in Slots :
        LET name == ops[s].name
            destName == ops[s].newName
        IN  /\ Steps(s, "delete", "local.delete") /\ FsDeleteOk(L, name)
                => Q' = IF isTempFileName(name) THEN Q
                        ELSE Append(Q, Entry("DELETE", name, NoPath))
            /\ /\ FileRename(ops[s]) /\ Finishes(s, "rename") /\ faults' = faults
               /\ ops[s].pc # "remote.forward" /\ ops'[s].err = "none"
               => Q' = IF isTempFileName(name) /\ isTempFileName(destName) THEN Q
                       ELSE Append(Q, Entry("MOVE", name, destName))]_vars

\* C17 witness: a rename from a temporary name to a persistent one has
\* succeeded and its MOVE is the newest entry of Q.
C17_Witness ==
    \E s \in Slots :
        /\ At(s, "rename", "done")
        /\ ops[s].err = "none"
        /\ isTempFileName(ops[s].name)
        /\ ~isTempFileName(ops[s].newName)
        /\ Len(Q) > 0
        /\ Q[Len(Q)] = Entry("MOVE", ops[s].name, ops[s].newName)

\* the entries of a list's result whose basename equals that of n after
\* normalization
SameName(op, n) ==
    {i \in 1..Len(op.rqFiles) : unicodeEquals(getName(op.rqFiles[i].name), getName(n))}

\* C18 as stated: when list has merged a local listing with a remote one, a
\* persistent local entry and a remote entry whose basenames are equal after
\* NFKD normalization have produced one entry backed by both, and the local
\* file was not handled as local-only: it is still in L and was logged neither
\* as deleted nor as a conflict.
C18_UnicodeMerge ==
    \A s \in Slots :
        ListDone(s) /\ ops[s].exists =>
            \A i \in 1..Len(ops[s].localFiles), j \in 1..Len(ops[s].remoteFiles) :
                LET lf == ops[s].localFiles[i]
                    rf == ops[s].remoteFiles[j]
                IN  /\ unicodeEquals(getName(lf), getName(rf))
                    /\ ~isTempFileName(lf)
                    /\ ~Hidden(ops[s], rf)
                    => /\ Cardinality(SameName(ops[s], lf)) = 1
                       /\ \A k \in SameName(ops[s], lf) :
                            ops[s].rqFiles[k].local /\ ops[s].rqFiles[k].remote
                       /\ lf \in L
                       /\ \A e \in ops[s].logged : e.path # lf

\* the step of slot s is the step of deleteDirectory at pc, on a directory
\* that local.exists found
DirStep(s, pc) == At(s, "deleteDirectory", pc) /\ ops[s].exists /\ ops'[s] # ops[s]
NoneKeyedUnder(q, name) == \A i \in 1..Len(q) : ~KeyedUnder(q[i], name)

\* C19: deleteDirectory(name) on a directory L holds goes through its steps in
\* one order: delete from L, delete from R, remove the entries of Q keyed
\* under name, look name up in W and delete it there if present.  Each step
\* writes its own collaborator only; a step that succeeds leads to the next
\* one; a step that fails invokes the callback with the error, changes
\* nothing, and no later step runs.  The callback is invoked without error
\* only by the last steps, after each step before has taken name out of its
\* tree and the entries keyed under name out of Q, and then W does not hold
\* name.
C19_DeleteDirectoryOrder ==
    [][\A s \in Slots :
        LET name == ops[s].name
            failed == ops'[s].err # "none"
        IN  /\ DirStep(s, "local.deleteDirectory")
                => /\ UNCHANGED <<R, Q, W>>
                   /\ IF failed THEN L' = L
                      ELSE name \notin L' /\ ops'[s].pc = "remote.deleteDirectory"
            /\ DirStep(s, "remote.deleteDirectory")
                => /\ UNCHANGED <<L, Q, W>>
                   /\ IF failed THEN R' = R
                      ELSE name \notin R' /\ ops'[s].pc = "rq.removePath"
            /\ DirStep(s, "rq.removePath")
                => /\ UNCHANGED <<L, R, W>>
                   /\ IF failed THEN Q' = Q
                      ELSE NoneKeyedUnder(Q', name) /\ ops'[s].pc = "work.exists"
            /\ DirStep(s, "work.exists")
                => /\ UNCHANGED <<L, R, Q, W>>
                   /\ ~failed => IF name \in W THEN ops'[s].pc = "work.deleteDirectory"
                                 ELSE ops'[s].pc = "done"
            /\ DirStep(s, "work.deleteDirectory")
                => /\ UNCHANGED <<L, R, Q>>
                   /\ ops'[s].pc = "done"
                   /\ IF failed THEN W' = W ELSE name \notin W'
            /\ ops[s].kind = "deleteDirectory" /\ ops[s].exists /\ ops'[s] # ops[s] /\ failed
                => ops'[s].pc = "done"
            /\ Finishes(s, "deleteDirectory") /\ ops[s].exists /\ ~failed
                => /\ ops[s].pc \in {"work.exists", "work.deleteDirectory"}
                   /\ name \notin W']_vars

\* C19 witness: after createFile(/a/x.txt) and delete(/a/x.txt) left /a empty
\* with a DELETE queued and /a in W, deleteDirectory(/a) has succeeded: /a is
\* in none of the trees and Q is empty.
C19_Witness ==
    \E s \in Slots :
        /\ At(s, "deleteDirectory", "done")
        /\ ops[s].err = "none"
        /\ ops[s].exists
        /\ ops[s].askedRemote
        /\ S1File \in createdFiles
        /\ faults = 0
        /\ Dir \notin L /\ Dir \notin R /\ Dir \notin W
        /\ Q = <<>>

\* createFile(n) in slot t has created n in L and has not failed since
CreatingOrCreated(t, n) ==
    /\ ops[t].kind = "createFile"
    /\ ops[t].name = n
    /\ ops[t].pc \in {"work.createFile", "done"}
    /\ ops[t].err = "none"
\* the calls made so far are the one in slot s and lists that are still running
OnlyListsBeside(s) ==
    /\ calls = Cardinality({t \in Slots : ops[t].kind # "idle"})
    /\ \A t \in Slots \ {s} : ops[t].kind \in {"idle", "list"}

\* C20 as stated: when createFile(n) invokes its callback with success while
\* nothing but lists ran beside it, L holds n and W holds n.rqcf; and the
\* orphan branch of list never deletes a file that a createFile in flight has
\* created or that a createFile has returned.
C20_CreateFileInsensitive ==
    [][\A s \in Slots :
        /\ Finishes(s, "createFile") /\ ops'[s].err = "none" /\ OnlyListsBeside(s)
            => /\ ops[s].name \in L'
               /\ getCreateFileName(ops[s].name) \in W'
        /\ At(s, "list", "file.delete") /\ ops'[s] # ops[s] /\ L' # L
            => \A t \in Slots : ~CreatingOrCreated(t, Current(ops[s]))]_vars

\* the local listing of the list in slot t is the one of the list in slot s
\* without the orphans that the list in slot s deleted
ListedAfter(s, t) ==
    /\ s # t
    /\ ListDone(s) /\ ListDone(t)
    /\ ops[s].exists /\ ops[t].exists
    /\ ops[t].name = ops[s].name
    /\ ops[t].remoteFiles = ops[s].remoteFiles
    /\ ops[t].localFiles = SelectSeq(ops[s].localFiles, LAMBDA p : ~LoggedDeleted(ops[s], p))

\* C21: two list calls with the same pattern, the second called after the
\* first returned, over the same R, W and Q and over the L that the first
\* call left (the collaborators listing each directory in the same order),
\* return the same sequence of entries: same names, same backing, same order;
\* also when the first call deleted an orphan from L.
C21_MergeDeterminism ==
    \A s, t \in Slots : ListedAfter(s, t) => ops[t].rqFiles = ops[s].rqFiles

\* C21 witness: the first of two lists deleted an orphan, the second found the
\* local tree shorter by it, and both returned the same two entries or more.
C21_Witness ==
    \E s, t \in Slots :
        /\ ListedAfter(s, t)
        /\ Len(ops[t].localFiles) < Len(ops[s].localFiles)
        /\ Len(ops[s].rqFiles) >= 2
        /\ ops[t].rqFiles = ops[s].rqFiles

\* rename of a directory
DirRename(op) == op.kind = "rename" /\ isDirectory(op.name)
\* the call in slot s works on a name that L holds: it was not forwarded to R
Cached(op) == op.pc \notin {"remote.forward", "done", "idle"}

\* C22: directories are eager, files are lazy.  createDirectory and the rename
\* of a directory that L holds never append to Q, and invoke their callback
\* without error only after they asked R: the remote step that succeeds
\* creates the directory in R, or moves it there.  createFile and the rename
\* of a file that L holds never ask R and never change R.
C22_EagerLazy ==
    [][\A s \in Slots :
        LET op == ops[s]
        IN  ops'[s] # op =>
            /\ op.kind = "createDirectory" \/ (DirRename(op) /\ Cached(op))
                => /\ Len(Q') = Len(Q)
                   /\ ops'[s].pc = "done" /\ ops'[s].err = "none" /\ op.pc # "done"
                        => ops'[s].askedRemote
            /\ At(s, "createDirectory", "remote.createDirectory") /\ ops'[s].err = "none"
                => op.name \in R'
            /\ DirRename(op) /\ op.pc = "remote.rename" /\ ops'[s].err = "none"
                => op.newName \in R' /\ op.name \notin R'
            /\ op.kind = "createFile" \/ (FileRename(op) /\ Cached(op))
                => R' = R /\ ~ops'[s].askedRemote]_vars

\* C22 witness: the rename of the directory /a, with an entry pending in Q,
\* has succeeded: R holds /b and not /a, and Q has as many entries as before.
C22_Witness ==
    \E s \in Slots :
        /\ At(s, "rename", "done")
        /\ ops[s].err = "none"
        /\ ops[s].name = Dir
        /\ ops[s].askedRemote
        /\ OtherDir \in R /\ Dir \notin R
        /\ OtherDir \in L /\ Dir \notin L
        /\ Len(Q) = 1

\* the collaborator calls a list can be waiting for
ListCalls ==
    {"remote.list", "local.exists", "local.list", "rq.getRequests", "work.exists",
     "canDelete", "file.delete", "deleteWorkFiles"}

\* C23 as stated: a list call is either waiting for a collaborator call or
\* has invoked its callback, once, with an error or a result, whatever the
\* outcome of each collaborator call was, an error of Q.getRequests included:
\* it never ends without its callback.
C23_ListCallsBack ==
    \A s \in Slots : ops[s].kind = "list" => ops[s].pc \in ListCalls \cup {"done"}

\* the entries of a list's result whose basename is that of n
Named(op, n) == {i \in 1..Len(op.rqFiles) : getName(op.rqFiles[i].name) = getName(n)}
\* n is in the local listing and in the remote listing, and no DELETE hides it
InBoth(op, n) ==
    /\ \E i \in 1..Len(op.localFiles) : op.localFiles[i] = n
    /\ InRemoteListing(op, n)
    /\ ~Hidden(op, n)

\* C24 as stated: the result of list holds no two entries with the same
\* basename, and a name in both listings, temporary or not, is there exactly
\* once, as the merged entry.
C24_UniqueNames ==
    \A s \in Slots : ListDone(s) =>
        /\ \A n \in FilePaths : Cardinality(Named(ops[s], n)) <= 1
        /\ \A n \in FilePaths : ops[s].exists /\ InBoth(ops[s], n)
              => \A i \in Named(ops[s], n) : ops[s].rqFiles[i].local /\ ops[s].rqFiles[i].remote

\* C24 amended: the result of list holds no two entries with the same
\* basename unless that name is temporary; a persistent name in both listings
\* is there exactly once, as the merged entry; a temporary name in both
\* listings is there twice, as the remote entry and as the local entry.
C24_UniquePersistentNames ==
    \A s \in Slots : ListDone(s) =>
        \A n \in FilePaths :
            LET named == Named(ops[s], n)
                both == ops[s].exists /\ InBoth(ops[s], n)
            IN  /\ ~isTempFileName(n) => Cardinality(named) <= 1
                /\ both /\ ~isTempFileName(n)
                     => /\ Cardinality(named) = 1
                        /\ \A i \in named : ops[s].rqFiles[i].local /\ ops[s].rqFiles[i].remote
                /\ both /\ isTempFileName(n)
                     => /\ Cardinality(named) = 2
                        /\ \E i, j \in named :
                            /\ i < j
                            /\ ops[s].rqFiles[i] = RemoteFile(n)
                            /\ ops[s].rqFiles[j].local /\ ~ops[s].rqFiles[j].remote

\* C24 witness: a list has returned x once, merged, and ~t twice, with both x
\* and ~t in the local and in the remote listing.
C24_Witness ==
    \E s \in Slots :
        /\ ListDone(s)
        /\ ops[s].exists
        /\ InBoth(ops[s], File(<<"x">>))
        /\ InBoth(ops[s], File(<<"~", "t">>))
        /\ Cardinality(Named(ops[s], File(<<"x">>))) = 1
        /\ Cardinality(Named(ops[s], File(<<"~", "t">>))) = 2

\* the steps of rename that can be the one to touch Q: the last sidecar step
\* of a file's rename, and rq.updatePath of a directory's
QueueSteps == {"work.exists.created", "work.rename.created", "work.rename", "rq.updatePath"}

\* C25: rename of a name that L holds changes Q in one step only, the one
\* that invokes the callback without error: for a file the step that ends
\* the sidecar renames (a marker rename in that step has moved the marker),
\* for a directory rq.updatePath, reached only after the remote rename
\* succeeded; local.rename has succeeded before.  A step that fails reports
\* the error, leaves Q as it is and does not undo the local rename: L is
\* unchanged by it and still holds the new name.
C25_RenameQueueLast ==
    [][\A s \in Slots :
        LET op == ops[s]
            old == op.name
            new == op.newName
            failed == ops'[s].err # "none"
        IN  op.kind = "rename" /\ Cached(op) /\ ops'[s] # op =>
            /\ Q' # Q
                => /\ op.pc \in QueueSteps
                   /\ ops'[s].pc = "done" /\ ~failed
                   /\ op.hadOld
                   /\ isDirectory(old) <=> op.pc = "rq.updatePath"
                   /\ op.pc = "rq.updatePath" => op.askedRemote /\ new \in R
                   /\ op.pc = "work.rename.created"
                        => getCreateFileName(new) \in W' /\ getCreateFileName(old) \notin W'
            /\ op.pc = "local.rename" /\ ~failed => new \in L' /\ ops'[s].hadOld
            /\ failed
                => /\ ops'[s].pc = "done"
                   /\ Q' = Q
                   /\ L' = L
                   /\ op.pc \notin {"local.exists", "local.rename"} /\ op.pc # "createInstance"
                        => new \in L']_vars

\* C25 witness: the rename of the directory /a failed on the remote after the
\* local rename: L holds /b and not /a, R still holds /a, and the entry
\* pending in Q is still keyed under /a.
C25_Witness ==
    \E s \in Slots :
        /\ At(s, "rename", "done")
        /\ ops[s].err = "Remote"
        /\ ops[s].name = Dir
        /\ ops[s].hadOld
        /\ OtherDir \in L /\ Dir \notin L
        /\ Dir \in R
        /\ Len(Q) > 0
        /\ \A i \in 1..Len(Q) : KeyedUnder(Q[i], Dir)

=============================================================================
